---- MODULE Spec2Model ----
(***************************************************************************)
(* peakstranding_server: structure submission with per-user/per-scene      *)
(* retention pruning, diversity-ranked random sampling and transactional   *)
(* like accounting, behind per-identity cooldowns (src/src/main.rs).       *)
(*                                                                         *)
(* Each HTTP handler is one action.  A handler's transaction runs on a     *)
(* private copy of the database (Db) and is installed by commit, or        *)
(* discarded by rollback.  Storage errors are inputs to the handlers: the  *)
(* name of the statement that fails.  Geometry columns and username are    *)
(* passed through by the code unread and are left out of the rows.         *)
(***************************************************************************)
EXTENDS Integers, Sequences, FiniteSets, TLC

\* ----------------------------------------------------------------- Config
\* The values of shared_test_config (src/src/tests.rs).  Durations are in
\* ticks of 50 ms, so the 100 ms cooldowns are 2 ticks.
max_user_structs_saved_per_scene == 2
max_requested_structs == 4
post_structure_rate_limit == 2
get_structure_rate_limit == 2
post_like_rate_limit == 2
default_random_limit == 3
max_scene_length == 16
\* CHECK (length(prefab) <= 50) of the structures table
max_prefab_length == 50
\* requested.clamp(1, 100) of like_structure
like_count_min == 1
like_count_max == 100

\* ----------------------------------------------------------------- Bounds
\* largest AUTOINCREMENT id handed out
MaxSeq == 3
\* a liker is sent no further like requests once its likes_send reaches this
MaxLikesSent == 1
\* requests that wait for the answer of Steam at the same time
MaxInFlight == 2
\* requests that run concurrently
MaxTasks == 3
\* uploads accepted while the extractor is exercised
MaxUploads == 1

\* ----------------------------------------------------------------- Values
OWNER_ID == 111
LIKER_ID == 222
OTHER_ID == 333
UserIds == {OWNER_ID, LIKER_ID, OTHER_ID}

\* scene names: two within max_scene_length, one of 17 characters
TooLongScene == "XXXXXXXXXXXXXXXXX"
\* a scene name of exactly max_scene_length characters
MaxLenScene == "SceneOf16Chars__"
\* prefab names of max_prefab_length characters and of one more
MaxLenPrefab == "prefab_of_exactly_fifty_characters______________50"
TooLongPrefab == "prefab_of_exactly_fifty_one_characters___________51"
SceneNames == {"SceneA", "SceneB", TooLongScene}

\* Option::None of LikeBody.count, RandomParams.map_id, RandomParams.limit
None == <<>>
Some(x) == <<x>>

VARIABLES
    structures,                   \* rows of table structures
    users,                        \* rows of table users, keyed by user_id
    sqlite_sequence,              \* AUTOINCREMENT high-water mark of structures
    wall,                         \* wall clock, seconds (strftime('%s','now'))
    post_structure_rate_limiter,  \* DashMap<u64, Instant>, see Elapse
    get_structure_rate_limiter,   \* DashMap<u64, Instant>
    post_like_rate_limiter,       \* DashMap<u64, Instant>
    resp,                         \* the request this step handled and its answer
    evicted,                      \* history: rows removed by the eviction delete
    evict_failures,               \* history: eviction deletes that failed (swallowed)
    cache,                        \* DashMap<String, u64>: raw ticket -> steam id
    skip_steam_ticket_validation, \* Config: the verification bypass switch
    in_flight,                    \* requests waiting for the answer of Steam
    auth,                         \* what the VerifiedUser extractor did in this step
    tasks,                        \* the requests that run concurrently, by task
    writer                        \* the task whose connection holds the write lock, or 0

db_vars == <<structures, users, sqlite_sequence>>
limiter_vars == <<post_structure_rate_limiter, get_structure_rate_limiter,
                  post_like_rate_limiter>>
auth_vars == <<cache, skip_steam_ticket_validation, in_flight, auth>>
conc_vars == <<tasks, writer>>
vars == <<structures, users, sqlite_sequence, wall,
          post_structure_rate_limiter, get_structure_rate_limiter,
          post_like_rate_limiter, resp, evicted, evict_failures,
          cache, skip_steam_ticket_validation, in_flight, auth, tasks, writer>>

\* ------------------------------------------------------------ The database
\* The committed database as one value, and the same shape for a
\* transaction's private view.
Db == [structures |-> structures, users |-> users, seq |-> sqlite_sequence]

NoRow == [id |-> 0, created_at |-> 0, user_id |-> 0, map_id |-> 0, scene |-> "",
          segment |-> 0, prefab |-> "", likes |-> 0]

\* The columns a Structure carries (FromRow): everything but `deleted`.
AsStructure(r) ==
    [id |-> r.id, created_at |-> r.created_at, user_id |-> r.user_id,
     map_id |-> r.map_id, scene |-> r.scene, segment |-> r.segment,
     prefab |-> r.prefab, likes |-> r.likes]

\* a bug: the account row is not created
InsertOrIgnoreUser_Never(us, uid) == us

\* a bug: INSERT OR REPLACE, which writes a fresh row over an existing one
InsertOrIgnoreUser_Replace(us, uid) ==
    [u \in DOMAIN us \cup {uid} |->
        IF u = uid THEN [upload_banned |-> FALSE, likes_received |-> 0, likes_send |-> 0]
        ELSE us[u]]

\* INSERT OR IGNORE INTO users (user_id, upload_banned, likes_received, likes_send)
\* VALUES (?, 0, 0, 0)
InsertOrIgnoreUser(us, uid) ==
    IF uid \in DOMAIN us
    THEN us
    ELSE us @@ (uid :> [upload_banned |-> FALSE, likes_received |-> 0, likes_send |-> 0])

\* a bug: the statements ran outside the transaction, so they stay
Rollback_KeepsWrites(committed, tx) == tx

\* tx.rollback(), or the drop of an uncommitted transaction: the committed
\* database stays as it was when the transaction began.
Rollback(committed, tx) == committed

\* ------------------------------------------------------------ Rate limiter
\* An Instant is only ever read through elapsed(), so a limiter entry is kept
\* as the ticks elapsed since it was recorded.  No comparison tells apart two
\* values that have reached the longest cooldown, so the value stops there.
Saturation ==
    LET a == post_structure_rate_limit
        b == get_structure_rate_limit
        c == post_like_rate_limit
    IN  IF a >= b /\ a >= c THEN a ELSE IF b >= c THEN b ELSE c

\* last.elapsed(), dt ticks later
Elapse(limiter, dt) ==
    [u \in DOMAIN limiter |->
        IF limiter[u] + dt > Saturation THEN Saturation ELSE limiter[u] + dt]

\* a bug: a request arriving exactly one cooldown later is still refused
RateLimited_Inclusive(limiter, steamid, limit) ==
    /\ steamid \in DOMAIN limiter
    /\ limiter[steamid] <= limit

\* if let Some(last) = limiter.get(&steamid) { if last.elapsed() < limit {429} }
RateLimited(limiter, steamid, limit) ==
    /\ steamid \in DOMAIN limiter
    /\ limiter[steamid] < limit

\* a bug: entry(steamid).or_insert(now), which keeps the time of an old entry
RecordAction_KeepsOld(limiter, steamid) ==
    [u \in DOMAIN limiter \cup {steamid} |->
        IF u \in DOMAIN limiter THEN limiter[u] ELSE 0]

\* a bug: the insert resets the instant of every identity of the map
RecordAction_Everyone(limiter, steamid) ==
    [u \in DOMAIN limiter \cup {steamid} |-> 0]

\* limiter.insert(steamid, Instant::now())
RecordAction(limiter, steamid) ==
    [u \in DOMAIN limiter \cup {steamid} |-> IF u = steamid THEN 0 ELSE limiter[u]]

\* What request a step handled (who, how long after the previous request;
\* scene of a POST; id and body.count of a like; the parameters of a GET) and what it answered: the status, the error= label
\* the handler logs, the Structure of a 200 to POST, the rows of a 200 to GET.
Response(op, steamid, dt, status) ==
    [op |-> op, steamid |-> steamid, dt |-> dt, status |-> status, error |-> "",
     scene |-> "", id |-> 0, count |-> None, params |-> None, payload |-> None,
     rec |-> NoRow, rows |-> <<>>]

\* a step that answers no request
NoResponse == Response("none", 0, 0, 0)

\* ------------------------------------------------------------ VerifiedUser
OWNER_TICKET == "owner-ticket"
LIKER_TICKET == "liker-ticket"
OTHER_TICKET == "other-ticket"
\* a numeric ticket with a sign and a leading zero, and a header value with
\* the byte 0xE9 in it
SignedTicket == "+0111"
Latin1Header == "tick<E9>t"

\* The bytes of the header values above.  A byte is written as its character
\* when it is visible ASCII and as two hex digits otherwise.
Bytes(header) ==
    CASE header = OWNER_TICKET -> <<"o", "w", "n", "e", "r", "-", "t", "i", "c", "k", "e", "t">>
      [] header = LIKER_TICKET -> <<"l", "i", "k", "e", "r", "-", "t", "i", "c", "k", "e", "t">>
      [] header = OTHER_TICKET -> <<"o", "t", "h", "e", "r", "-", "t", "i", "c", "k", "e", "t">>
      [] header = "222" -> <<"2", "2", "2">>
      [] header = SignedTicket -> <<"+", "0", "1", "1", "1">>
      [] header = Latin1Header -> <<"t", "i", "c", "k", "E9", "t">>
      [] header = "111" -> <<"1", "1", "1">>
      [] header = "76561x" -> <<"7", "6", "5", "6", "1", "x">>
      [] header = "" -> <<>>

\* cache.insert of TestContext::new
TestCache ==
    (OWNER_TICKET :> OWNER_ID) @@ (LIKER_TICKET :> LIKER_ID) @@ (OTHER_TICKET :> OTHER_ID)

\* HeaderValue::to_str: Ok only if every byte is visible ASCII
ToStrOk(header) == LET bytes == Bytes(header) IN \A i \in 1..Len(bytes) : Len(bytes[i]) = 1

IsDigit(c) == c \in {"0", "1", "2", "3", "4", "5", "6", "7", "8", "9"}

DigitValue(c) ==
    CASE c = "0" -> 0 [] c = "1" -> 1 [] c = "2" -> 2 [] c = "3" -> 3 [] c = "4" -> 4
      [] c = "5" -> 5 [] c = "6" -> 6 [] c = "7" -> 7 [] c = "8" -> 8 [] c = "9" -> 9

RECURSIVE DigitsValue(_, _)
DigitsValue(digits, acc) ==
    IF digits = <<>> THEN acc
    ELSE DigitsValue(Tail(digits), acc * 10 + DigitValue(Head(digits)))

\* str::parse::<u64>: an optional "+", then one or more decimal digits.  The
\* strings of the model are too short to overflow 64 bits.
ParseU64(str) ==
    LET s == Bytes(str)
        digits == IF s # <<>> /\ Head(s) = "+" THEN Tail(s) ELSE s
    IN  IF digits = <<>> \/ \E i \in 1..Len(digits) : ~IsDigit(digits[i])
        THEN None
        ELSE Some(DigitsValue(digits, 0))

\* a bug: the cache is never consulted
CacheGet_AlwaysMiss(c, ticket) == None

\* state.cache.get(&header)
CacheGet(c, ticket) == IF ticket \in DOMAIN c THEN Some(c[ticket]) ELSE None

\* state.cache.insert(header, id)
CacheInsert(c, ticket, id) == [t \in DOMAIN c \cup {ticket} |-> IF t = ticket THEN id ELSE c[t]]

\* What the extractor decided: how (`via`: "header", "cache", "bypass",
\* "call" for a request sent to Steam and not answered yet, "steam" for an
\* answer of Steam), Ok(VerifiedUser(id)) or Err((status, message)), and the
\* cache after it.
Verified(via, id, c) ==
    [via |-> via, ok |-> TRUE, id |-> id, status |-> 0, message |-> "", cache |-> c]
Rejection(via, status, message, c) ==
    [via |-> via, ok |-> FALSE, id |-> 0, status |-> status, message |-> message, cache |-> c]

\* a bug: the bypass is tried before the cache
Lookup_BypassBeforeCache(c, skip, header) ==
    IF header = None THEN Rejection("header", 401, "X-Steam-Auth missing", c)
    ELSE IF ~ToStrOk(header[1]) THEN Rejection("header", 400, "bad header", c)
    ELSE IF skip
        THEN IF ParseU64(header[1]) = None
             THEN Rejection("bypass", 400, "invalid steam ticket override", c)
             ELSE Verified("bypass", ParseU64(header[1])[1],
                           CacheInsert(c, header[1], ParseU64(header[1])[1]))
    ELSE IF CacheGet(c, header[1]) # None
        THEN Verified("cache", CacheGet(c, header[1])[1], c)
    ELSE Rejection("call", 0, "", c)

\* from_request_parts up to the call of Steam: the header, the cache, the
\* bypass.
Lookup(c, skip, header) ==
    IF header = None THEN Rejection("header", 401, "X-Steam-Auth missing", c)
    ELSE IF ~ToStrOk(header[1]) THEN Rejection("header", 400, "bad header", c)
    ELSE IF CacheGet(c, header[1]) # None
        THEN Verified("cache", CacheGet(c, header[1])[1], c)
    ELSE IF skip
        THEN IF ParseU64(header[1]) = None
             THEN Rejection("bypass", 400, "invalid steam ticket override", c)
             ELSE Verified("bypass", ParseU64(header[1])[1],
                           CacheInsert(c, header[1], ParseU64(header[1])[1]))
    ELSE Rejection("call", 0, "", c)

\* What the call of Steam comes to: the request fails in transport, the body
\* is not the expected JSON, or it is, with params.result and params.steamid.
SteamReply(kind, result, steamid) == [kind |-> kind, result |-> result, steamid |-> steamid]

\* a bug: a body that is not the expected JSON is taken for a rejection
SteamVerdict_BadJsonRejects(c, ticket, reply) ==
    IF reply.kind = "transport_error" THEN Rejection("steam", 502, "transport_error", c)
    ELSE IF reply.kind = "bad_json" THEN Rejection("steam", 401, "ticket rejected", c)
    ELSE IF reply.result # "OK" THEN Rejection("steam", 401, "ticket rejected", c)
    ELSE IF ParseU64(reply.steamid) = None THEN Rejection("steam", 502, "bad steamid", c)
    ELSE Verified("steam", ParseU64(reply.steamid)[1],
                  CacheInsert(c, ticket, ParseU64(reply.steamid)[1]))

\* a bug: the entry is written before the result is looked at
SteamVerdict_CachesFirst(c, ticket, reply) ==
    IF reply.kind = "transport_error" THEN Rejection("steam", 502, "transport_error", c)
    ELSE IF reply.kind = "bad_json" THEN Rejection("steam", 502, "bad_json", c)
    ELSE IF ParseU64(reply.steamid) = None THEN Rejection("steam", 502, "bad steamid", c)
    ELSE IF reply.result # "OK"
        THEN Rejection("steam", 401, "ticket rejected",
                       CacheInsert(c, ticket, ParseU64(reply.steamid)[1]))
    ELSE Verified("steam", ParseU64(reply.steamid)[1],
                  CacheInsert(c, ticket, ParseU64(reply.steamid)[1]))

\* from_request_parts from the answer of Steam on
SteamVerdict(c, ticket, reply) ==
    IF reply.kind = "transport_error" THEN Rejection("steam", 502, "transport_error", c)
    ELSE IF reply.kind = "bad_json" THEN Rejection("steam", 502, "bad_json", c)
    ELSE IF reply.result # "OK" THEN Rejection("steam", 401, "ticket rejected", c)
    ELSE IF ParseU64(reply.steamid) = None THEN Rejection("steam", 502, "bad steamid", c)
    ELSE Verified("steam", ParseU64(reply.steamid)[1],
                  CacheInsert(c, ticket, ParseU64(reply.steamid)[1]))

\* the extractor's step as recorded in `auth`: the header it was given, how
\* it decided, and the answer of Steam when the step received one
NoReply == SteamReply("none", "", "")
Auth(header, out) ==
    [header |-> header, via |-> out.via, ok |-> out.ok, id |-> out.id, reply |-> NoReply]
NoAuth == [header |-> None, via |-> "none", ok |-> FALSE, id |-> 0, reply |-> NoReply]

\* The extractor passes the request on as steamid without waiting for Steam:
\* the handler runs in the same step.
Extracted(header, steamid) ==
    \E out \in {Lookup(cache, skip_steam_ticket_validation, header)} :
        /\ out.ok /\ out.id = steamid
        /\ cache' = out.cache
        /\ auth' = Auth(header, out)
        /\ UNCHANGED <<skip_steam_ticket_validation, in_flight>>

\* The extractor answers the request itself: the handler is not called.
Rejected(op, header, out, reply) ==
    /\ ~out.ok /\ out.via # "call"
    /\ cache' = out.cache
    /\ auth' = [Auth(header, out) EXCEPT !.reply = reply]
    /\ resp' = [Response(op, 0, 0, out.status) EXCEPT !.error = out.message]
    /\ UNCHANGED <<db_vars, wall, limiter_vars, evicted, evict_failures,
                   skip_steam_ticket_validation, conc_vars>>

\* a step outside the extractor
NoRequest ==
    /\ auth' = NoAuth
    /\ UNCHANGED <<cache, skip_steam_ticket_validation, in_flight>>

\* ---------------------------------------------------------- post_structure
\* Structure::insert_query(): the row the INSERT ... RETURNING * creates.
NewRow(d, steamid, s) ==
    [id |-> d.seq + 1, created_at |-> wall * 1000, user_id |-> steamid,
     map_id |-> s.map_id, scene |-> s.scene, segment |-> s.segment,
     prefab |-> s.prefab, likes |-> 0, deleted |-> FALSE]

\* CHECK constraints of the structures table
ChecksPass(s) ==
    /\ Len(s.scene) <= max_scene_length
    /\ Len(s.prefab) <= max_prefab_length

\* WHERE user_id = ? AND scene = ?
UserSceneRows(rows, steamid, scene) ==
    {r \in rows : r.user_id = steamid /\ r.scene = scene}

\* a bug: ties on created_at broken by the highest id
EvictBefore_HighestId(r, q) ==
    \/ r.created_at < q.created_at
    \/ (r.created_at = q.created_at /\ r.id >= q.id)

\* ORDER BY created_at ASC, id ASC LIMIT 1
EvictBefore(r, q) ==
    \/ r.created_at < q.created_at
    \/ (r.created_at = q.created_at /\ r.id <= q.id)

OldestRow(rows) == CHOOSE r \in rows : \A q \in rows : EvictBefore(r, q)

\* a bug: the comparison is off by one
OverLimit_OffByOne(count) == count > max_user_structs_saved_per_scene + 1

\* if count > max_user_structs_saved_per_scene
OverLimit(count) == count > max_user_structs_saved_per_scene

\* a bug: the subquery leaves out `AND scene = ?`
DeleteOldest_AnyScene(rows, steamid, scene) ==
    IF {r \in rows : r.user_id = steamid} = {}
    THEN rows
    ELSE rows \ {OldestRow({r \in rows : r.user_id = steamid})}

\* DELETE FROM structures WHERE id = (SELECT id ... LIMIT 1)
DeleteOldest(rows, steamid, scene) ==
    IF UserSceneRows(rows, steamid, scene) = {}
    THEN rows
    ELSE rows \ {OldestRow(UserSceneRows(rows, steamid, scene))}

PostFaults == {"none", "tx_begin", "ensure_user", "insert_structure",
               "count_structures", "delete_oldest", "tx_commit"}

\* a bug: the result of the eviction delete is propagated with `?`
SubmitTx_EvictionFatal(d, steamid, s, fault) ==
    LET fail(label, tx) == [status |-> 500, error |-> label, db |-> Rollback(d, tx),
                            rec |-> NoRow, evicted |-> {}, evict_failed |-> FALSE]
        rec == NewRow(d, steamid, s)
        d1 == [d EXCEPT !.users = InsertOrIgnoreUser(d.users, steamid)]
        d2 == [d1 EXCEPT !.structures = d1.structures \cup {rec}, !.seq = rec.id]
        count == Cardinality(UserSceneRows(d2.structures, steamid, s.scene))
        evict == OverLimit(count)
        d3 == IF evict
              THEN [d2 EXCEPT !.structures = DeleteOldest(d2.structures, steamid, s.scene)]
              ELSE d2
    IN  IF fault = "tx_begin" THEN fail("like_tx_begin_failed", d)
        ELSE IF fault = "ensure_user" THEN fail("ensure_user_failed", d)
        ELSE IF fault = "insert_structure" \/ ~ChecksPass(s)
            THEN fail("insert_structure_failed", d1)
        ELSE IF fault = "count_structures" THEN fail("count_structures_failed", d2)
        ELSE IF evict /\ fault = "delete_oldest" THEN fail("delete_oldest_failed", d2)
        ELSE IF fault = "tx_commit" THEN fail("tx_commit_failed", d3)
        ELSE [status |-> 200, error |-> "", db |-> d3, rec |-> AsStructure(rec),
              evicted |-> d2.structures \ d3.structures, evict_failed |-> FALSE]

\* The transaction of post_structure, from state.db.begin() to tx.commit().
\* Result: the status, the log's error label, the committed database after
\* it, the Structure answered, and whether the eviction delete failed.
SubmitTx(d, steamid, s, fault) ==
    LET fail(label, tx) == [status |-> 500, error |-> label, db |-> Rollback(d, tx),
                            rec |-> NoRow, evicted |-> {}, evict_failed |-> FALSE]
        rec == NewRow(d, steamid, s)
        d1 == [d EXCEPT !.users = InsertOrIgnoreUser(d.users, steamid)]
        d2 == [d1 EXCEPT !.structures = d1.structures \cup {rec}, !.seq = rec.id]
        count == Cardinality(UserSceneRows(d2.structures, steamid, s.scene))
        evict == OverLimit(count)
        evict_fails == evict /\ fault = "delete_oldest"
        d3 == IF evict /\ ~evict_fails
              THEN [d2 EXCEPT !.structures = DeleteOldest(d2.structures, steamid, s.scene)]
              ELSE d2
    IN  IF fault = "tx_begin" THEN fail("like_tx_begin_failed", d)
        ELSE IF fault = "ensure_user" THEN fail("ensure_user_failed", d)
        ELSE IF fault = "insert_structure" \/ ~ChecksPass(s)
            THEN fail("insert_structure_failed", d1)
        ELSE IF fault = "count_structures" THEN fail("count_structures_failed", d2)
        ELSE IF fault = "tx_commit" THEN fail("tx_commit_failed", d3)
        ELSE [status |-> 200, error |-> "", db |-> d3, rec |-> AsStructure(rec),
              evicted |-> d2.structures \ d3.structures, evict_failed |-> evict_fails]

\* a bug: the cooldown is looked at after the transaction has committed
post_structure_LateGate(steamid, s, dt, fault) ==
    \E limiter \in {Elapse(post_structure_rate_limiter, dt)},
       out \in {SubmitTx(Db, steamid, s, fault)} :
        /\ get_structure_rate_limiter' = Elapse(get_structure_rate_limiter, dt)
        /\ post_like_rate_limiter' = Elapse(post_like_rate_limiter, dt)
        /\ UNCHANGED <<wall, conc_vars>>
        /\ structures' = out.db.structures
        /\ users' = out.db.users
        /\ sqlite_sequence' = out.db.seq
        /\ evicted' = evicted \cup {AsStructure(r) : r \in out.evicted}
        /\ evict_failures' =
                IF out.evict_failed
                THEN [evict_failures EXCEPT ![<<steamid, s.scene>>] = @ + 1]
                ELSE evict_failures
        /\ IF RateLimited(limiter, steamid, post_structure_rate_limit)
           THEN /\ post_structure_rate_limiter' = limiter
                /\ resp' = [Response("post_structure", steamid, dt, 429) EXCEPT
                                !.scene = s.scene, !.payload = Some(s)]
           ELSE /\ post_structure_rate_limiter' = RecordAction(limiter, steamid)
                /\ resp' = [Response("post_structure", steamid, dt, out.status) EXCEPT
                                !.scene = s.scene, !.payload = Some(s),
                                !.rec = out.rec, !.error = out.error]

\* POST /api/v1/structures by steamid with payload s, arriving dt ticks after
\* the previous request.
post_structure(steamid, s, dt, fault) ==
    \E limiter \in {Elapse(post_structure_rate_limiter, dt)},
       out \in {SubmitTx(Db, steamid, s, fault)} :
        /\ get_structure_rate_limiter' = Elapse(get_structure_rate_limiter, dt)
        /\ post_like_rate_limiter' = Elapse(post_like_rate_limiter, dt)
        /\ UNCHANGED <<wall, conc_vars>>
        /\ IF RateLimited(limiter, steamid, post_structure_rate_limit)
           THEN /\ post_structure_rate_limiter' = limiter
                /\ resp' = [Response("post_structure", steamid, dt, 429) EXCEPT
                                !.scene = s.scene, !.payload = Some(s)]
                /\ UNCHANGED <<db_vars, evicted, evict_failures>>
           ELSE /\ post_structure_rate_limiter' = RecordAction(limiter, steamid)
                /\ structures' = out.db.structures
                /\ users' = out.db.users
                /\ sqlite_sequence' = out.db.seq
                /\ resp' = [Response("post_structure", steamid, dt, out.status) EXCEPT
                                !.scene = s.scene, !.payload = Some(s),
                                !.rec = out.rec, !.error = out.error]
                /\ evicted' = evicted \cup {AsStructure(r) : r \in out.evicted}
                /\ evict_failures' =
                        IF out.evict_failed
                        THEN [evict_failures EXCEPT ![<<steamid, s.scene>>] = @ + 1]
                        ELSE evict_failures

\* ---------------------------------------------------------- like_structure
\* body.count.unwrap_or(1)
RequestedCount(body) == IF body.count = None THEN 1 ELSE body.count[1]

\* a bug: only the lower bound is applied
ClampCount_NoUpperBound(requested) ==
    IF requested < like_count_min THEN like_count_min ELSE requested

\* requested.clamp(1, 100)
ClampCount(requested) ==
    IF requested < like_count_min THEN like_count_min
    ELSE IF requested > like_count_max THEN like_count_max
    ELSE requested

\* a bug: the lookup leaves out `AND deleted = 0`
SelectOwner_AnyRow(rows, id) == {r.user_id : r \in {q \in rows : q.id = id}}

\* SELECT user_id FROM structures WHERE id = ? AND deleted = 0
SelectOwner(rows, id) == {r.user_id : r \in {q \in rows : q.id = id /\ ~q.deleted}}

\* UPDATE structures SET likes = likes + ? WHERE id = ? AND deleted = 0
UpdateLikes(rows, id, count) ==
    {IF r.id = id /\ ~r.deleted THEN [r EXCEPT !.likes = @ + count] ELSE r : r \in rows}

\* rows_affected() of that UPDATE
RowsAffected(rows, id) == Cardinality({r \in rows : r.id = id /\ ~r.deleted})

\* UPDATE users SET likes_send = likes_send + ? WHERE user_id = ?
UpdateLikesSend(us, uid, count) ==
    [u \in DOMAIN us |-> IF u = uid THEN [us[u] EXCEPT !.likes_send = @ + count] ELSE us[u]]

\* a bug: the owner's counter is left as it was
UpdateLikesReceived_Skipped(us, uid, count) == us

\* UPDATE users SET likes_received = likes_received + ? WHERE user_id = ?
UpdateLikesReceived(us, uid, count) ==
    [u \in DOMAIN us |->
        IF u = uid THEN [us[u] EXCEPT !.likes_received = @ + count] ELSE us[u]]

\* a bug: the self-like check never fires
IsSelfLike_Never(owner_user_id, steamid) == FALSE

\* if owner_user_id == steamid as i64
IsSelfLike(owner_user_id, steamid) == owner_user_id = steamid

LikeFaults == {"none", "tx_begin", "select_owner", "ensure_liker", "ensure_owner",
               "update_structure", "update_liker_metrics", "update_owner_metrics",
               "tx_commit"}

\* The transaction of like_structure, from state.db.begin() to tx.commit().
LikeTx(d, steamid, id, requested, fault) ==
    LET out(status, label, after) == [status |-> status, error |-> label, db |-> after]
        owner == SelectOwner(d.structures, id)
        owner_user_id == CHOOSE o \in owner : TRUE
        count == ClampCount(requested)
        d1 == [d EXCEPT !.users = InsertOrIgnoreUser(d.users, steamid)]
        d2 == [d1 EXCEPT !.users = InsertOrIgnoreUser(d1.users, owner_user_id)]
        d3 == [d2 EXCEPT !.structures = UpdateLikes(d2.structures, id, count)]
        d4 == [d3 EXCEPT !.users = UpdateLikesSend(d3.users, steamid, count)]
        d5 == [d4 EXCEPT !.users = UpdateLikesReceived(d4.users, owner_user_id, count)]
    IN  IF fault = "tx_begin" THEN out(500, "tx_begin_failed", d)
        ELSE IF fault = "select_owner" THEN out(500, "select_owner_failed", Rollback(d, d))
        ELSE IF owner = {} THEN out(404, "", Rollback(d, d))
        ELSE IF IsSelfLike(owner_user_id, steamid)
            THEN out(400, "self_like", Rollback(d, d))
        ELSE IF fault = "ensure_liker" THEN out(500, "ensure_liker_failed", Rollback(d, d))
        ELSE IF fault = "ensure_owner" THEN out(500, "ensure_owner_failed", Rollback(d, d1))
        ELSE IF fault = "update_structure"
            THEN out(500, "update_structure_failed", Rollback(d, d2))
        ELSE IF RowsAffected(d2.structures, id) = 0 THEN out(404, "", Rollback(d, d2))
        ELSE IF fault = "update_liker_metrics"
            THEN out(500, "update_liker_metrics_failed", Rollback(d, d3))
        ELSE IF fault = "update_owner_metrics"
            THEN out(500, "update_owner_metrics_failed", Rollback(d, d4))
        ELSE IF fault = "tx_commit" THEN out(500, "tx_commit_failed", Rollback(d, d5))
        ELSE out(204, "", d5)

\* a bug: the cooldown is recorded once the like has been applied
like_structure_RecordOnSuccess(steamid, id, body, dt, fault) ==
    \E limiter \in {Elapse(post_like_rate_limiter, dt)},
       out \in {LikeTx(Db, steamid, id, RequestedCount(body), fault)} :
        /\ post_structure_rate_limiter' = Elapse(post_structure_rate_limiter, dt)
        /\ get_structure_rate_limiter' = Elapse(get_structure_rate_limiter, dt)
        /\ UNCHANGED <<wall, evicted, evict_failures, conc_vars>>
        /\ IF RateLimited(limiter, steamid, post_like_rate_limit)
           THEN /\ post_like_rate_limiter' = limiter
                /\ resp' = [Response("like_structure", steamid, dt, 429) EXCEPT
                                !.id = id, !.count = body.count]
                /\ UNCHANGED db_vars
           ELSE /\ post_like_rate_limiter' =
                        IF out.status = 204 THEN RecordAction(limiter, steamid) ELSE limiter
                /\ structures' = out.db.structures
                /\ users' = out.db.users
                /\ sqlite_sequence' = out.db.seq
                /\ resp' = [Response("like_structure", steamid, dt, out.status) EXCEPT
                                !.id = id, !.count = body.count, !.error = out.error]

\* POST /api/v1/structures/{id}/like by steamid, arriving dt ticks after the
\* previous request.
like_structure(steamid, id, body, dt, fault) ==
    \E limiter \in {Elapse(post_like_rate_limiter, dt)},
       out \in {LikeTx(Db, steamid, id, RequestedCount(body), fault)} :
        /\ post_structure_rate_limiter' = Elapse(post_structure_rate_limiter, dt)
        /\ get_structure_rate_limiter' = Elapse(get_structure_rate_limiter, dt)
        /\ UNCHANGED <<wall, evicted, evict_failures, conc_vars>>
        /\ IF RateLimited(limiter, steamid, post_like_rate_limit)
           THEN /\ post_like_rate_limiter' = limiter
                /\ resp' = [Response("like_structure", steamid, dt, 429) EXCEPT
                                !.id = id, !.count = body.count]
                /\ UNCHANGED db_vars
           ELSE /\ post_like_rate_limiter' = RecordAction(limiter, steamid)
                /\ structures' = out.db.structures
                /\ users' = out.db.users
                /\ sqlite_sequence' = out.db.seq
                /\ resp' = [Response("like_structure", steamid, dt, out.status) EXCEPT
                                !.id = id, !.count = body.count, !.error = out.error]

\* -------------------------------------------------------------- get_random
\* a bug: a scene of exactly max_scene_length is refused too
SceneTooLong_Inclusive(scene) == Len(scene) >= max_scene_length

\* p.scene.len() > state.config.max_scene_length
SceneTooLong(scene) == Len(scene) > max_scene_length

\* #[serde(default = "default_limit")] limit: i64
RequestedLimit(p) == IF p.limit = None THEN default_random_limit ELSE p.limit[1]

\* a bug: only the lower bound is applied
ClampLimit_NoUpperBound(limit) == IF limit < 0 THEN 0 ELSE limit

\* a bug: only the upper bound is applied
ClampLimit_NoLowerBound(limit) ==
    IF limit > max_requested_structs THEN max_requested_structs ELSE limit

\* p.limit.clamp(0, state.config.max_requested_structs)
ClampLimit(limit) ==
    IF limit < 0 THEN 0
    ELSE IF limit > max_requested_structs THEN max_requested_structs
    ELSE limit

\* exclude_prefabs is carried as the pieces between its commas (what
\* split(',') yields; None and "" both yield one empty piece).
\* .split(',').filter(|s| !s.is_empty()).collect()
PrefabsToExclude(p) ==
    LET pieces == IF p.exclude_prefabs = None THEN <<"">> ELSE p.exclude_prefabs[1]
    IN  {pieces[i] : i \in {j \in 1..Len(pieces) : pieces[j] # ""}}

\* a bug: "deleted = 0" is missing from the conditions
WhereConditions_IgnoresDeleted(r, p) ==
    /\ r.scene = p.scene
    /\ (p.map_id # None => r.map_id = p.map_id[1])
    /\ (PrefabsToExclude(p) # {} => r.prefab \notin PrefabsToExclude(p))

\* WHERE scene = ? AND deleted = 0 [AND map_id = ?] [AND prefab NOT IN (...)]
WhereConditions(r, p) ==
    /\ r.scene = p.scene
    /\ ~r.deleted
    /\ (p.map_id # None => r.map_id = p.map_id[1])
    /\ (PrefabsToExclude(p) # {} => r.prefab \notin PrefabsToExclude(p))

Filtered(rows, p) == {r \in rows : WhereConditions(r, p)}

\* a bug: PARTITION BY user_id alone
SamePartition_OwnerOnly(r, q) == r.user_id = q.user_id

\* PARTITION BY user_id, segment
SamePartition(r, q) == r.user_id = q.user_id /\ r.segment = q.segment

\* a bug: no ranking, the rows are ordered by RANDOM() alone
DiversityRank_Unranked(rows, random, r) == 1

\* ROW_NUMBER() OVER (PARTITION BY user_id, segment ORDER BY RANDOM()); random
\* gives each row's RANDOM() draw, by row id.
DiversityRank(rows, random, r) ==
    1 + Cardinality({q \in rows : SamePartition(q, r) /\ random[q.id] < random[r.id]})

\* ORDER BY diversity_rank, RANDOM()
OrderedBefore(rows, random, q, r) ==
    \/ DiversityRank(rows, random, q) < DiversityRank(rows, random, r)
    \/ /\ DiversityRank(rows, random, q) = DiversityRank(rows, random, r)
       /\ random[q.id] < random[r.id]

Ordered(rows, random) ==
    [i \in 1..Cardinality(rows) |->
        CHOOSE r \in rows :
            Cardinality({q \in rows : OrderedBefore(rows, random, q, r)}) = i - 1]

\* LIMIT ?  (a negative LIMIT is no limit in SQLite)
Limit(seq, limit) ==
    IF limit < 0 \/ limit >= Len(seq) THEN seq ELSE SubSeq(seq, 1, limit)

\* The query of get_random over the committed rows.
RankedStructures(rows, p, random) ==
    LET ordered == Ordered(Filtered(rows, p), random)
        limited == Limit(ordered, ClampLimit(RequestedLimit(p)))
    IN  [i \in 1..Len(limited) |-> AsStructure(limited[i])]

\* The RANDOM() draws one query can make: all the rows get distinct draws.
RandomDraws(rows) == Permutations({r.id : r \in rows})

SampleFaults == {"none", "query"}

\* a bug: the refused request is recorded too
get_random_RecordsRefusal(steamid, p, dt, fault) ==
    LET limiter == Elapse(get_structure_rate_limiter, dt)
        answer(status, label) ==
            [Response("get_random", steamid, dt, status) EXCEPT
                !.scene = p.scene, !.params = Some(p), !.error = label]
    IN  /\ post_structure_rate_limiter' = Elapse(post_structure_rate_limiter, dt)
        /\ post_like_rate_limiter' = Elapse(post_like_rate_limiter, dt)
        /\ UNCHANGED <<db_vars, wall, evicted, evict_failures, conc_vars>>
        /\ get_structure_rate_limiter' = RecordAction(limiter, steamid)
        /\ IF RateLimited(limiter, steamid, get_structure_rate_limit)
           THEN resp' = answer(429, "")
           ELSE IF SceneTooLong(p.scene)
           THEN resp' = answer(400, "scene_too_long")
           ELSE IF fault = "query" THEN resp' = answer(500, "query_failed")
           ELSE \E random \in RandomDraws(Filtered(structures, p)) :
                    resp' = [answer(200, "") EXCEPT
                                !.rows = RankedStructures(structures, p, random)]

\* GET /api/v1/structures by steamid with query parameters p, arriving dt
\* ticks after the previous request.
get_random(steamid, p, dt, fault) ==
    LET limiter == Elapse(get_structure_rate_limiter, dt)
        answer(status, label) ==
            [Response("get_random", steamid, dt, status) EXCEPT
                !.scene = p.scene, !.params = Some(p), !.error = label]
    IN  /\ post_structure_rate_limiter' = Elapse(post_structure_rate_limiter, dt)
        /\ post_like_rate_limiter' = Elapse(post_like_rate_limiter, dt)
        /\ UNCHANGED <<db_vars, wall, evicted, evict_failures, conc_vars>>
        /\ IF RateLimited(limiter, steamid, get_structure_rate_limit)
           THEN /\ get_structure_rate_limiter' = limiter
                /\ resp' = answer(429, "")
           ELSE /\ get_structure_rate_limiter' = RecordAction(limiter, steamid)
                /\ IF SceneTooLong(p.scene)
                   THEN resp' = answer(400, "scene_too_long")
                   ELSE IF fault = "query" THEN resp' = answer(500, "query_failed")
                   ELSE \E random \in RandomDraws(Filtered(structures, p)) :
                            resp' = [answer(200, "") EXCEPT
                                        !.rows = RankedStructures(structures, p, random)]

\* ------------------------------------------------------------- Environment
\* The system clock is set: the next created_at may be later or earlier.
WallClock(w) ==
    /\ w # wall
    /\ wall' = w
    /\ resp' = NoResponse
    /\ NoRequest
    /\ UNCHANGED <<db_vars, limiter_vars, evicted, evict_failures, conc_vars>>

\* Moderation outside the handlers sets the soft-delete flag of a row (the
\* `deleted` column of apply_migrations): one UPDATE on a connection of its
\* own, which waits for the write lock.
SoftDelete(id) ==
    /\ writer = 0
    /\ \E r \in structures : r.id = id /\ ~r.deleted
    /\ structures' = {IF r.id = id THEN [r EXCEPT !.deleted = TRUE] ELSE r : r \in structures}
    /\ resp' = NoResponse
    /\ NoRequest
    /\ UNCHANGED <<users, sqlite_sequence, wall, limiter_vars, evicted, evict_failures,
                   conc_vars>>

\* ---------------------------------------------------------- Specifications
EmptyMap == [u \in {} |-> 0]

\* no request is in progress: the handler actions of the specifications
\* below run one request at a time, from its arrival to its answer
NoTasks ==
    /\ tasks = <<>>
    /\ writer = 0

\* The extractor of TestContext::new: the three test tickets are in the
\* cache and the bypass switch is on; no request waits for Steam.
TestAuth ==
    /\ cache = TestCache
    /\ skip_steam_ticket_validation = TRUE
    /\ in_flight = {}
    /\ auth = NoAuth

\* the header of a request of TestContext in the name of steamid
TestHeader(steamid) ==
    Some(CASE steamid = OWNER_ID -> OWNER_TICKET
           [] steamid = LIKER_ID -> LIKER_TICKET
           [] steamid = OTHER_ID -> OTHER_TICKET)

\* The server after start-up: empty tables, empty limiters.
Init ==
    /\ structures = {}
    /\ users = EmptyMap
    /\ sqlite_sequence = 0
    /\ wall = 0
    /\ post_structure_rate_limiter = EmptyMap
    /\ get_structure_rate_limiter = EmptyMap
    /\ post_like_rate_limiter = EmptyMap
    /\ resp = NoResponse
    /\ evicted = {}
    /\ evict_failures = [k \in UserIds \X SceneNames |-> 0]
    /\ TestAuth
    /\ NoTasks

\* Spec: submissions against the store, each a cooldown after the previous
\* request, with storage errors, moderation and a wall clock that can be set.
WallSeconds == {0, 1}
SubmitRequests ==
    {<<OWNER_ID, "SceneA">>, <<OWNER_ID, "SceneB">>, <<LIKER_ID, "SceneA">>}
Payload(scene) == [map_id |-> 1, scene |-> scene, segment |-> 0, prefab |-> "prefab_a"]
SubmitDelays == {post_structure_rate_limit}

Submit ==
    \E rq \in SubmitRequests, dt \in SubmitDelays, fault \in PostFaults :
        /\ sqlite_sequence < MaxSeq
        /\ Extracted(TestHeader(rq[1]), rq[1])
        /\ post_structure(rq[1], Payload(rq[2]), dt, fault)

Moderate == \E id \in 1..MaxSeq : SoftDelete(id)

ClockSet == \E w \in WallSeconds : WallClock(w)

Next == Submit \/ Moderate \/ ClockSet

Spec == Init /\ [][Next]_vars

\* SpecLike: likes against a store that holds one structure of OWNER_ID and
\* one of LIKER_ID, with storage errors and moderation.  OTHER_ID has no
\* account row yet; the uploads happened a cooldown or more ago.
Uploaded(id, steamid) ==
    [id |-> id, created_at |-> 0, user_id |-> steamid, map_id |-> 1, scene |-> "SceneA",
     segment |-> 0, prefab |-> "prefab_a", likes |-> 0, deleted |-> FALSE]

InitLike ==
    /\ structures = {Uploaded(1, OWNER_ID), Uploaded(2, LIKER_ID)}
    /\ users = InsertOrIgnoreUser(InsertOrIgnoreUser(EmptyMap, OWNER_ID), LIKER_ID)
    /\ sqlite_sequence = 2
    /\ wall = 0
    /\ post_structure_rate_limiter = [u \in {OWNER_ID, LIKER_ID} |-> Saturation]
    /\ get_structure_rate_limiter = EmptyMap
    /\ post_like_rate_limiter = EmptyMap
    /\ resp = NoResponse
    /\ evicted = {}
    /\ evict_failures = [k \in UserIds \X SceneNames |-> 0]
    /\ TestAuth
    /\ NoTasks

Likers == {LIKER_ID, OTHER_ID}
LikeIds == {1, 2, 999}
LikeBodies == {[count |-> c] : c \in {None, Some(0), Some(-2), Some(150)}}
\* a retry at once, or a request a cooldown later that may hit a storage error
LikeArrivals ==
    {<<0, "none">>} \cup {<<post_like_rate_limit, fault>> : fault \in LikeFaults}

LikesSent(steamid) == IF steamid \in DOMAIN users THEN users[steamid].likes_send ELSE 0

Like ==
    \E steamid \in Likers, id \in LikeIds, body \in LikeBodies, a \in LikeArrivals :
        /\ LikesSent(steamid) < MaxLikesSent
        /\ Extracted(TestHeader(steamid), steamid)
        /\ like_structure(steamid, id, body, a[1], a[2])

ModerateLiked == \E id \in LikeIds : SoftDelete(id)

NextLike == Like \/ ModerateLiked

SpecLike == InitLike /\ [][NextLike]_vars

\* SpecRate: the three handlers with requests 0, 1 or 2 ticks apart and no
\* storage errors.  OWNER_ID uploads and samples, LIKER_ID likes and samples.
RateDelays == 0..Saturation
RateParams == [scene |-> "SceneA", map_id |-> None, limit |-> None, exclude_prefabs |-> None]

RatePost ==
    \E dt \in RateDelays :
        /\ sqlite_sequence < MaxSeq
        /\ Extracted(TestHeader(OWNER_ID), OWNER_ID)
        /\ post_structure(OWNER_ID, Payload("SceneA"), dt, "none")

RateGet ==
    \E steamid \in {OWNER_ID, LIKER_ID}, dt \in RateDelays :
        /\ Extracted(TestHeader(steamid), steamid)
        /\ get_random(steamid, RateParams, dt, "none")

RateLike ==
    \E dt \in RateDelays :
        /\ LikesSent(LIKER_ID) < MaxLikesSent
        /\ Extracted(TestHeader(LIKER_ID), LIKER_ID)
        /\ like_structure(LIKER_ID, 1, [count |-> None], dt, "none")

NextRate == RatePost \/ RateGet \/ RateLike

SpecRate == Init /\ [][NextRate]_vars

\* SpecSample: one identity samples a store of six uploads by three owners,
\* any of the five in SceneA soft-deleted by moderation.
SampleRow(id, steamid, scene, map_id, segment, prefab, deleted) ==
    [id |-> id, created_at |-> 0, user_id |-> steamid, map_id |-> map_id, scene |-> scene,
     segment |-> segment, prefab |-> prefab, likes |-> 0, deleted |-> deleted]

SampleStore(del) ==
    {SampleRow(1, OWNER_ID, "SceneA", 1, 0, "prefab_a", del[1]),
     SampleRow(2, OWNER_ID, "SceneA", 1, 0, "prefab_b", del[2]),
     SampleRow(3, LIKER_ID, "SceneA", 1, 0, "prefab_a", del[3]),
     SampleRow(4, LIKER_ID, "SceneA", 2, 1, "prefab_b", del[4]),
     SampleRow(5, OTHER_ID, "SceneA", 1, 1, "prefab_a", del[5]),
     SampleRow(6, OTHER_ID, "SceneB", 1, 0, "prefab_a", FALSE)}

InitSample ==
    /\ \E del \in [1..5 -> BOOLEAN] : structures = SampleStore(del)
    /\ users = [u \in UserIds |->
                    [upload_banned |-> FALSE, likes_received |-> 0, likes_send |-> 0]]
    /\ sqlite_sequence = 6
    /\ wall = 0
    /\ post_structure_rate_limiter = [u \in UserIds |-> Saturation]
    /\ get_structure_rate_limiter = EmptyMap
    /\ post_like_rate_limiter = EmptyMap
    /\ resp = NoResponse
    /\ evicted = {}
    /\ evict_failures = [k \in UserIds \X SceneNames |-> 0]
    /\ TestAuth
    /\ NoTasks

SampleParams ==
    [scene : SceneNames \cup {MaxLenScene},
     map_id : {None, Some(1)},
     limit : {None, Some(-1), Some(0), Some(2), Some(10)},
     exclude_prefabs : {None, Some(<<"", "prefab_b", "">>)}]

Sample ==
    \E p \in SampleParams, fault \in SampleFaults :
        /\ Extracted(TestHeader(OWNER_ID), OWNER_ID)
        /\ get_random(OWNER_ID, p, 0, fault)

NextSample == Sample

SpecSample == InitSample /\ [][NextSample]_vars

\* SpecAuth: requests with any header against a server that starts with an
\* empty store, with the bypass switch on or off and the cache empty or
\* holding one ticket.  With the switch off, Steam answers the calls in any
\* order and in any way; a ticket is of one account, so every "OK" answer
\* for a ticket names the same steamid, well-formed or not.
InitAuth ==
    /\ structures = {}
    /\ users = EmptyMap
    /\ sqlite_sequence = 0
    /\ wall = 0
    /\ post_structure_rate_limiter = EmptyMap
    /\ get_structure_rate_limiter = EmptyMap
    /\ post_like_rate_limiter = EmptyMap
    /\ resp = NoResponse
    /\ evicted = {}
    /\ evict_failures = [k \in UserIds \X SceneNames |-> 0]
    /\ cache \in {EmptyMap, OWNER_TICKET :> OWNER_ID}
    /\ skip_steam_ticket_validation \in BOOLEAN
    /\ in_flight = {}
    /\ auth = NoAuth
    /\ NoTasks

AuthHeaders ==
    {None} \cup {Some(h) : h \in {OWNER_TICKET, SignedTicket, Latin1Header}}
AuthOps == {"post_structure", "get_random"}
AuthParams == [scene |-> "SceneB", map_id |-> None, limit |-> None, exclude_prefabs |-> None]

\* params.steamid of the account a ticket is of
SteamOwner(ticket) ==
    CASE ticket = OWNER_TICKET -> "111"
      [] ticket = SignedTicket -> "222"

SteamReplies(ticket) ==
    {SteamReply("transport_error", "", ""),
     SteamReply("bad_json", "", ""),
     SteamReply("json", "Invalid ticket", ""),
     SteamReply("json", "Invalid ticket", SteamOwner(ticket)),
     SteamReply("json", "OK", "76561x"),
     SteamReply("json", "OK", SteamOwner(ticket))}

\* the handler the router calls once the extractor has passed the request on
Handle(op, steamid) ==
    IF op = "post_structure"
    THEN /\ sqlite_sequence < MaxUploads
         /\ post_structure(steamid, Payload("SceneA"), post_structure_rate_limit, "none")
    ELSE get_random(steamid, AuthParams, get_structure_rate_limit, "none")

\* A request arrives.  The extractor answers it, passes it on to the handler,
\* or calls Steam.
Arrive ==
    \E header \in AuthHeaders, op \in AuthOps :
        \E out \in {Lookup(cache, skip_steam_ticket_validation, header)} :
            \/ /\ out.via = "call"
               /\ Cardinality(in_flight) < MaxInFlight
               /\ [header |-> header[1], op |-> op] \notin in_flight
               /\ in_flight' = in_flight \cup {[header |-> header[1], op |-> op]}
               /\ auth' = Auth(header, out)
               /\ resp' = NoResponse
               /\ UNCHANGED <<db_vars, wall, limiter_vars, evicted, evict_failures,
                              cache, skip_steam_ticket_validation, conc_vars>>
            \/ /\ Rejected(op, header, out, NoReply)
               /\ UNCHANGED in_flight
            \/ /\ Extracted(header, out.id)
               /\ Handle(op, out.id)

\* Steam answers a call, the call fails, or its answer cannot be read.
SteamAnswers ==
    \E call \in in_flight :
        \E reply \in SteamReplies(call.header) :
            \E out \in {SteamVerdict(cache, call.header, reply)} :
                /\ in_flight' = in_flight \ {call}
                /\ \/ Rejected(call.op, Some(call.header), out, reply)
                   \/ /\ out.ok
                      /\ cache' = out.cache
                      /\ auth' = [Auth(Some(call.header), out) EXCEPT !.reply = reply]
                      /\ UNCHANGED skip_steam_ticket_validation
                      /\ Handle(call.op, out.id)

NextAuth == Arrive \/ SteamAnswers

SpecAuth == InitAuth /\ [][NextAuth]_vars

\* SpecValidate: OWNER_ID uploads with scene and prefab names at and beyond
\* their length bounds, each a cooldown after the previous request.
ValidatePayloads ==
    [map_id : {1}, scene : {"SceneA", MaxLenScene, TooLongScene}, segment : {0},
     prefab : {"prefab_a", MaxLenPrefab, TooLongPrefab}]

SubmitLengths ==
    \E s \in ValidatePayloads :
        /\ sqlite_sequence < MaxSeq
        /\ Extracted(TestHeader(OWNER_ID), OWNER_ID)
        /\ post_structure(OWNER_ID, s, post_structure_rate_limit, "none")

NextValidate == SubmitLengths

SpecValidate == Init /\ [][NextValidate]_vars

\* SpecDeleted: likes and samples against the store of SpecLike while
\* moderation soft-deletes its structures; no storage errors.
DeletedParams ==
    [scene : {"SceneA"}, map_id : {None}, limit : {None, Some(1)}, exclude_prefabs : {None}]

LikeDeleted ==
    \E steamid \in Likers, id \in LikeIds, dt \in {0, post_like_rate_limit} :
        /\ LikesSent(steamid) < MaxLikesSent
        /\ Extracted(TestHeader(steamid), steamid)
        /\ like_structure(steamid, id, [count |-> None], dt, "none")

SampleDeleted ==
    \E p \in DeletedParams :
        /\ Extracted(TestHeader(OTHER_ID), OTHER_ID)
        /\ get_random(OTHER_ID, p, get_structure_rate_limit, "none")

NextDeleted == LikeDeleted \/ SampleDeleted \/ ModerateLiked

SpecDeleted == InitLike /\ [][NextDeleted]_vars

\* SpecEvict: uploads, with storage errors, against a store in which OWNER_ID
\* holds one structure more than the cap in SceneA (the eviction delete of
\* its third upload failed) and one in SceneB, and LIKER_ID holds one in
\* SceneA that OWNER_ID has given 5 likes.  OTHER_ID has no account row.
EvictStore ==
    {Uploaded(1, OWNER_ID), Uploaded(2, OWNER_ID), Uploaded(3, OWNER_ID),
     [Uploaded(4, OWNER_ID) EXCEPT !.scene = "SceneB"],
     [Uploaded(5, LIKER_ID) EXCEPT !.likes = 5]}

InitEvict ==
    /\ structures = EvictStore
    /\ users = (OWNER_ID :> [upload_banned |-> FALSE, likes_received |-> 0, likes_send |-> 5])
                @@ (LIKER_ID :> [upload_banned |-> FALSE, likes_received |-> 5, likes_send |-> 0])
    /\ sqlite_sequence = Cardinality(EvictStore)
    /\ wall = 0
    /\ post_structure_rate_limiter = [u \in {OWNER_ID, LIKER_ID} |-> Saturation]
    /\ get_structure_rate_limiter = EmptyMap
    /\ post_like_rate_limiter = [u \in {OWNER_ID} |-> Saturation]
    /\ resp = NoResponse
    /\ evicted = {}
    /\ evict_failures = [k \in UserIds \X SceneNames |->
                            IF k = <<OWNER_ID, "SceneA">> THEN 1 ELSE 0]
    /\ TestAuth
    /\ NoTasks

EvictRequests ==
    {<<OWNER_ID, "SceneA">>, <<OWNER_ID, "SceneB">>, <<LIKER_ID, "SceneA">>,
     <<OTHER_ID, "SceneA">>}

SubmitMore ==
    \E rq \in EvictRequests, fault \in PostFaults :
        /\ sqlite_sequence < Cardinality(EvictStore) + MaxSeq
        /\ Extracted(TestHeader(rq[1]), rq[1])
        /\ post_structure(rq[1], Payload(rq[2]), post_structure_rate_limit, fault)

NextEvict == SubmitMore

SpecEvict == InitEvict /\ [][NextEvict]_vars

\* SpecRetry: likes and uploads against the store of SpecLike, each either
\* at once after the previous request or a cooldown later, and then with any
\* storage error.
RetryLike ==
    \E steamid \in Likers, id \in LikeIds, a \in LikeArrivals :
        /\ LikesSent(steamid) < MaxLikesSent
        /\ Extracted(TestHeader(steamid), steamid)
        /\ like_structure(steamid, id, [count |-> None], a[1], a[2])

SubmitArrivals ==
    {<<0, "none">>} \cup {<<post_structure_rate_limit, fault>> : fault \in PostFaults}

RetrySubmit ==
    \E a \in SubmitArrivals :
        /\ sqlite_sequence < MaxSeq
        /\ Extracted(TestHeader(OWNER_ID), OWNER_ID)
        /\ post_structure(OWNER_ID, Payload("SceneA"), a[1], a[2])

NextRetry == RetryLike \/ RetrySubmit

SpecRetry == InitLike /\ [][NextRetry]_vars

\* SpecIsolate: uploads, samples and likes of OWNER_ID and LIKER_ID against
\* the store of SpecLike, each at once after the previous request or a
\* cooldown later, without storage errors.  The samples are of a scene that
\* holds no structure.

IsolateSubmit ==
    \E steamid \in {OWNER_ID, LIKER_ID}, dt \in {0, Saturation} :
        /\ sqlite_sequence < MaxSeq
        /\ Extracted(TestHeader(steamid), steamid)
        /\ post_structure(steamid, Payload("SceneA"), dt, "none")

IsolateSample ==
    \E steamid \in {OWNER_ID, LIKER_ID}, dt \in {0, Saturation} :
        /\ Extracted(TestHeader(steamid), steamid)
        /\ get_random(steamid, [RateParams EXCEPT !.scene = "SceneB"], dt, "none")

IsolateLike ==
    \E steamid \in {OWNER_ID, LIKER_ID}, id \in {1, 2}, dt \in {0, Saturation} :
        /\ LikesSent(steamid) < MaxLikesSent
        /\ Extracted(TestHeader(steamid), steamid)
        /\ like_structure(steamid, id, [count |-> None], dt, "none")

NextIsolate == IsolateSubmit \/ IsolateSample \/ IsolateLike

SpecIsolate == InitLike /\ [][NextIsolate]_vars

\* ------------------------------------------------------- Concurrent requests
\* The database is opened in WAL mode with a busy timeout, and each handler
\* runs its statements in a transaction begun with BEGIN (deferred) on a
\* connection of its own.  One connection at a time holds the write lock,
\* from its first writing statement to its commit or rollback.  A
\* transaction reads the database as committed when its first statement ran.

\* a bug: the statements run outside a transaction, without the write lock
WriteLockFree_NoLock(w, t) == TRUE

\* the write lock is free for task t
WriteLockFree(w, t) == w = 0 \/ w = t

\* a bug: a transaction that has read writes although others have committed
SnapshotCurrent_Always(snap, d) == TRUE

\* a transaction that has read may go on to write only if nothing has been
\* committed since it read (else SQLITE_BUSY_SNAPSHOT)
SnapshotCurrent(snap, d) == snap = d

\* a bug: only a commit ends the transaction; an error return leaves it open
TxEnded_CommitOnly(w, t, status) == IF w = t /\ status \in {200, 204} THEN 0 ELSE w

\* tx.commit(), tx.rollback() or the drop of the Transaction on an error
\* return: the connection of task t gives up the write lock if it holds it,
\* whatever the status of the answer
TxEnded(w, t, status) == IF w = t THEN 0 ELSE w

\* a request: the handler, the identity, the scene of an upload, the id and
\* the body.count of a like
PostRequest(steamid, scene) ==
    [op |-> "post_structure", steamid |-> steamid, scene |-> scene, id |-> 0, count |-> None]
LikeRequest(steamid, id, count) ==
    [op |-> "like_structure", steamid |-> steamid, scene |-> "", id |-> id, count |-> count]

\* a task: its request, where it stands in the handler, the database its
\* transaction read, what its statements came to, and its answer
NewTask(rq) == [rq |-> rq, pc |-> "new", snap |-> None, out |-> None, status |-> 0]

\* the limiter and the cooldown of a handler
LimiterOf(op) ==
    IF op = "post_structure" THEN post_structure_rate_limiter ELSE post_like_rate_limiter
CooldownOf(op) ==
    IF op = "post_structure" THEN post_structure_rate_limit ELSE post_like_rate_limit

\* the answer of task t
Answered(t, status, error) ==
    [Response(tasks[t].rq.op, tasks[t].rq.steamid, 0, status) EXCEPT
        !.scene = tasks[t].rq.scene, !.id = tasks[t].rq.id, !.count = tasks[t].rq.count,
        !.error = error]

\* task t returns
Return(t, status) == tasks' = [tasks EXCEPT ![t].pc = "done", ![t].status = status]

\* The request of task t arrives: the extractor, then the cooldown check.
Check(t) ==
    /\ tasks[t].pc = "new"
    /\ Extracted(TestHeader(tasks[t].rq.steamid), tasks[t].rq.steamid)
    /\ IF RateLimited(LimiterOf(tasks[t].rq.op), tasks[t].rq.steamid, CooldownOf(tasks[t].rq.op))
       THEN /\ Return(t, 429)
            /\ resp' = Answered(t, 429, "")
       ELSE /\ tasks' = [tasks EXCEPT ![t].pc = "checked"]
            /\ resp' = NoResponse
    /\ UNCHANGED <<db_vars, wall, limiter_vars, evicted, evict_failures, writer>>

\* limiter.insert(steamid, Instant::now()) of task t
Record(t) ==
    /\ tasks[t].pc = "checked"
    /\ IF tasks[t].rq.op = "post_structure"
       THEN /\ post_structure_rate_limiter' =
                    RecordAction(post_structure_rate_limiter, tasks[t].rq.steamid)
            /\ UNCHANGED post_like_rate_limiter
       ELSE /\ post_like_rate_limiter' =
                    RecordAction(post_like_rate_limiter, tasks[t].rq.steamid)
            /\ UNCHANGED post_structure_rate_limiter
    /\ tasks' = [tasks EXCEPT ![t].pc = "recorded"]
    /\ resp' = NoResponse
    /\ NoRequest
    /\ UNCHANGED <<db_vars, wall, get_structure_rate_limiter, evicted, evict_failures, writer>>

\* a step of task t that answers nothing and changes neither the limiters
\* nor the committed database
Private(t) ==
    /\ resp' = NoResponse
    /\ NoRequest
    /\ UNCHANGED <<db_vars, wall, limiter_vars, evicted, evict_failures>>

\* task t answers without having changed the committed database
Fails(t, status, error) ==
    /\ Return(t, status)
    /\ resp' = Answered(t, status, error)
    /\ writer' = TxEnded(writer, t, status)
    /\ NoRequest
    /\ UNCHANGED <<db_vars, wall, limiter_vars, evicted, evict_failures>>

\* post_structure from state.db.begin() to the statement before the commit.
\* The first statement writes: it waits for the write lock, and fails when
\* the busy timeout ends the wait.  A storage error at a later statement is
\* answered once the statements before it have run.
PostWrite(t, fault) ==
    /\ tasks[t].pc = "recorded" /\ tasks[t].rq.op = "post_structure"
    /\ \/ /\ fault = "tx_begin"
          /\ Fails(t, 500, "like_tx_begin_failed")
       \/ /\ fault # "tx_begin"
          /\ WriteLockFree(writer, t)
          /\ writer' = t
          /\ \E out \in {SubmitTx(Db, tasks[t].rq.steamid, Payload(tasks[t].rq.scene), fault)} :
                tasks' = [tasks EXCEPT ![t].pc = "written", ![t].out = Some(out)]
          /\ Private(t)
       \/ /\ fault # "tx_begin"
          /\ ~WriteLockFree(writer, t)
          /\ Fails(t, 500, "ensure_user_failed")

\* tx.commit() of post_structure, or the drop of the transaction after a
\* storage error, and the answer
PostCommit(t) ==
    /\ tasks[t].pc = "written" /\ tasks[t].rq.op = "post_structure"
    /\ \E out \in {tasks[t].out[1]} :
        /\ structures' = out.db.structures
        /\ users' = out.db.users
        /\ sqlite_sequence' = out.db.seq
        /\ evicted' = evicted \cup {AsStructure(r) : r \in out.evicted}
        /\ Return(t, out.status)
        /\ resp' = [Answered(t, out.status, out.error) EXCEPT
                        !.payload = Some(Payload(tasks[t].rq.scene)), !.rec = out.rec]
        /\ evict_failures' =
                IF out.evict_failed
                THEN [evict_failures EXCEPT
                        ![<<tasks[t].rq.steamid, tasks[t].rq.scene>>] = @ + 1]
                ELSE evict_failures
        /\ writer' = TxEnded(writer, t, out.status)
    /\ NoRequest
    /\ UNCHANGED <<wall, limiter_vars>>

\* like_structure from state.db.begin() to the self-like check: the owner
\* lookup starts the transaction's read of the database.
LikeSelect(t, fault) ==
    /\ tasks[t].pc = "recorded" /\ tasks[t].rq.op = "like_structure"
    /\ \E owner \in {SelectOwner(structures, tasks[t].rq.id)} :
        IF fault = "tx_begin" THEN Fails(t, 500, "tx_begin_failed")
        ELSE IF fault = "select_owner" THEN Fails(t, 500, "select_owner_failed")
        ELSE IF owner = {} THEN Fails(t, 404, "")
        ELSE IF IsSelfLike(CHOOSE o \in owner : TRUE, tasks[t].rq.steamid)
            THEN Fails(t, 400, "self_like")
        ELSE /\ tasks' = [tasks EXCEPT ![t].pc = "selected", ![t].snap = Some(Db)]
             /\ Private(t)
             /\ UNCHANGED writer

\* like_structure from the first account upsert to the statement before the
\* commit.  The upsert is the first write of a transaction that has read: it
\* fails at once when another connection holds the write lock or has
\* committed since the owner lookup.
LikeWrite(t, fault) ==
    /\ tasks[t].pc = "selected"
    /\ IF WriteLockFree(writer, t) /\ SnapshotCurrent(tasks[t].snap[1], Db)
       THEN /\ writer' = t
            /\ \E out \in {LikeTx(tasks[t].snap[1], tasks[t].rq.steamid, tasks[t].rq.id,
                                   RequestedCount(tasks[t].rq), fault)} :
                    tasks' = [tasks EXCEPT ![t].pc = "written", ![t].out = Some(out)]
            /\ Private(t)
       ELSE Fails(t, 500, "ensure_liker_failed")

\* tx.commit() of like_structure, or the rollback after an UPDATE that
\* changed no row, and the answer
LikeCommit(t) ==
    /\ tasks[t].pc = "written" /\ tasks[t].rq.op = "like_structure"
    /\ \E out \in {tasks[t].out[1]} :
        /\ structures' = out.db.structures
        /\ users' = out.db.users
        /\ sqlite_sequence' = out.db.seq
        /\ Return(t, out.status)
        /\ resp' = Answered(t, out.status, out.error)
        /\ writer' = TxEnded(writer, t, out.status)
    /\ NoRequest
    /\ UNCHANGED <<wall, limiter_vars, evicted, evict_failures>>

\* SpecConc: MaxTasks requests arrive within the same instant and run
\* concurrently, against a store in which OWNER_ID holds as many structures
\* in SceneA as the cap allows, while moderation may soft-delete the oldest.
\* The requests are uploads of OWNER_ID to SceneA, or likes of structure 1 by
\* LIKER_ID (twice) and OTHER_ID, or likes of structure 1 and an upload of
\* OWNER_ID, which evicts it.
ConcStore == {Uploaded(1, OWNER_ID), Uploaded(2, OWNER_ID)}

ConcRequests ==
    LET upload == PostRequest(OWNER_ID, "SceneA")
        like == LikeRequest(LIKER_ID, 1, None)
        likes == LikeRequest(OTHER_ID, 1, Some(150))
    IN  {<<upload, upload, upload>>, <<like, likes, like>>, <<like, upload, likes>>}

InitConc ==
    /\ structures = ConcStore
    /\ users = InsertOrIgnoreUser(EmptyMap, OWNER_ID)
    /\ sqlite_sequence = Cardinality(ConcStore)
    /\ wall = 0
    /\ post_structure_rate_limiter = [u \in {OWNER_ID} |-> Saturation]
    /\ get_structure_rate_limiter = EmptyMap
    /\ post_like_rate_limiter = EmptyMap
    /\ resp = NoResponse
    /\ evicted = {}
    /\ evict_failures = [k \in UserIds \X SceneNames |-> 0]
    /\ TestAuth
    /\ \E rqs \in ConcRequests :
            tasks = [t \in 1..MaxTasks |-> NewTask(rqs[((t - 1) % Len(rqs)) + 1])]
    /\ writer = 0

Checks == \E t \in DOMAIN tasks : Check(t)
Records == \E t \in DOMAIN tasks : Record(t)
PostWrites == \E t \in DOMAIN tasks : PostWrite(t, "none")
PostCommits == \E t \in DOMAIN tasks : PostCommit(t)
LikeSelects == \E t \in DOMAIN tasks : LikeSelect(t, "none")
LikeWrites == \E t \in DOMAIN tasks : LikeWrite(t, "none")
LikeCommits == \E t \in DOMAIN tasks : LikeCommit(t)
ModerateOldest == SoftDelete(1)

NextConc ==
    \/ Checks \/ Records \/ PostWrites \/ PostCommits
    \/ LikeSelects \/ LikeWrites \/ LikeCommits \/ ModerateOldest

SpecConc == InitConc /\ [][NextConc]_vars

\* SpecRelease: the concurrent requests of SpecConc where any statement of a
\* transaction may fail with a storage error, one request fewer being in
\* flight.  The runtime polls every task that can take a step, and the busy
\* timeout ends every wait for the write lock.
InitRelease ==
    /\ structures = ConcStore
    /\ users = InsertOrIgnoreUser(EmptyMap, OWNER_ID)
    /\ sqlite_sequence = Cardinality(ConcStore)
    /\ wall = 0
    /\ post_structure_rate_limiter = [u \in {OWNER_ID} |-> Saturation]
    /\ get_structure_rate_limiter = EmptyMap
    /\ post_like_rate_limiter = EmptyMap
    /\ resp = NoResponse
    /\ evicted = {}
    /\ evict_failures = [k \in UserIds \X SceneNames |-> 0]
    /\ TestAuth
    /\ \E rqs \in ConcRequests :
            tasks = [t \in 1..(MaxTasks - 1) |-> NewTask(rqs[((t - 1) % Len(rqs)) + 1])]
    /\ writer = 0

PostFails == \E t \in DOMAIN tasks, fault \in PostFaults : PostWrite(t, fault)
LikeSelectFails == \E t \in DOMAIN tasks, fault \in LikeFaults : LikeSelect(t, fault)
LikeWriteFails ==
    \E t \in DOMAIN tasks, fault \in LikeFaults \ {"tx_begin", "select_owner"} :
        LikeWrite(t, fault)

NextRelease ==
    \/ Checks \/ Records \/ PostFails \/ PostCommits
    \/ LikeSelectFails \/ LikeWriteFails \/ LikeCommits \/ ModerateOldest

SpecRelease == InitRelease /\ [][NextRelease]_vars /\ WF_vars(NextRelease)

\* ------------------------------------------------------------------ Claims
Pairs == UserIds \X SceneNames

\* the stored, non-deleted structures of one owner in one scene
LiveRows(u, sc) == {r \in structures : r.user_id = u /\ r.scene = sc /\ ~r.deleted}

\* every structure one owner ever committed to one scene: stored or evicted
Committed(u, sc) ==
    {AsStructure(r) : r \in UserSceneRows(structures, u, sc)} \cup
    {r \in evicted : r.user_id = u /\ r.scene = sc}

\* C1 as stated: in every committed state each (owner, scene) pair holds at
\* most max_user_structs_saved_per_scene non-deleted structures.
C1_CapAlways ==
    \A k \in Pairs :
        Cardinality(LiveRows(k[1], k[2])) <= max_user_structs_saved_per_scene

\* C1 amended: each (owner, scene) pair holds at most the cap plus the
\* number of that owner's submits to that scene whose eviction delete failed.
C1_CapPlusFailedEvictions ==
    \A k \in Pairs :
        Cardinality(LiveRows(k[1], k[2])) <=
            max_user_structs_saved_per_scene + evict_failures[k]

\* an eviction has taken place for a pair that now sits exactly at the cap
C1_Witness ==
    \E e \in evicted :
        /\ Cardinality(LiveRows(e.user_id, e.scene)) = max_user_structs_saved_per_scene
        /\ evict_failures[<<e.user_id, e.scene>>] = 0

\* the ids of the n latest submissions among rows
LatestIds(rows, n) ==
    {r.id : r \in {q \in rows : Cardinality({x \in rows : x.id > q.id}) < n}}

StoredIds(u, sc) == {r.id : r \in UserSceneRows(structures, u, sc)}

\* a submit that removes rows removes one row, the submitter's row in the
\* submitted scene that has the earliest created_at and then the lowest id
EvictsOldest ==
    (resp'.op = "post_structure" /\ resp'.status = 200) =>
        LET mine == UserSceneRows(structures, resp'.steamid, resp'.scene)
            before == {AsStructure(r) : r \in mine} \cup {resp'.rec}
            removed == evicted' \ evicted
        IN  /\ Cardinality(removed) <= 1
            /\ \A r \in removed :
                /\ r \in before
                /\ \A q \in before :
                    \/ r.created_at < q.created_at
                    \/ (r.created_at = q.created_at /\ r.id <= q.id)
            /\ {AsStructure(r) : r \in structures'} =
                    ({AsStructure(r) : r \in structures} \cup {resp'.rec}) \ removed

\* once a pair has had more than cap submissions, exactly the last cap of
\* them are stored
LastCapSurvive(u, sc) ==
    Cardinality(Committed(u, sc)) > max_user_structs_saved_per_scene =>
        StoredIds(u, sc) = LatestIds(Committed(u, sc), max_user_structs_saved_per_scene)

\* created_at never went down from one submission of the pair to the next
CreatedInOrder(u, sc) ==
    \A r, q \in Committed(u, sc) : r.id < q.id => r.created_at <= q.created_at

\* C2 as stated: an eviction removes the earliest-created row (ties: lowest
\* id), and after more than cap submits of a pair the stored set is exactly
\* the last cap submissions.
C2_LastCapAlways ==
    [][EvictsOldest /\ (\A k \in Pairs : LastCapSurvive(k[1], k[2]))']_vars

\* as many of the pair's latest submissions are stored as the cap plus the
\* number of the pair's failed eviction deletes
LastSurvive(u, sc) ==
    LET kept == max_user_structs_saved_per_scene + evict_failures[<<u, sc>>]
    IN  Cardinality(Committed(u, sc)) > kept =>
            StoredIds(u, sc) = LatestIds(Committed(u, sc), kept)

\* C2 amended: an eviction removes the earliest-created row (ties: lowest
\* id); for every pair whose created_at values never decreased from one
\* submission to the next, the stored set is exactly the pair's last
\* cap + f submissions, f the number of its eviction deletes that failed.
C2_EvictionOrder ==
    [][/\ EvictsOldest
       /\ (\A k \in Pairs :
             CreatedInOrder(k[1], k[2]) => LastSurvive(k[1], k[2]))']_vars

\* three submissions of one pair in the same second: the tie is broken by id
C2_Witness ==
    \E k \in Pairs :
        /\ Cardinality(Committed(k[1], k[2])) > max_user_structs_saved_per_scene
        /\ evict_failures[k] = 0
        /\ \A r, q \in Committed(k[1], k[2]) : r.created_at = q.created_at
        /\ \E e \in evicted : e.user_id = k[1] /\ e.scene = k[2]

\* -- likes
LikeAnswered(status) == resp'.op = "like_structure" /\ resp'.status = status

\* the structure a like names, as stored before the request
Target == {r \in structures : r.id = resp'.id}
LiveTarget == {r \in Target : ~r.deleted}

LikesOf(rows, id) == IF \E r \in rows : r.id = id THEN (CHOOSE r \in rows : r.id = id).likes ELSE 0
SentBy(us, u) == IF u \in DOMAIN us THEN us[u].likes_send ELSE 0
ReceivedBy(us, u) == IF u \in DOMAIN us THEN us[u].likes_received ELSE 0

\* the count a like body asks for, clamped into [1, 100]
Applied(count) ==
    LET requested == IF count = None THEN 1 ELSE count[1]
    IN  IF requested < 1 THEN 1 ELSE IF requested > 100 THEN 100 ELSE requested

\* C3: a successful like adds c = clamp(requested, 1, 100), with an omitted
\* count read as 1, to the structure's likes, to the liker's likes_send and
\* to the owner's likes_received.
C3_LikeClamped ==
    [][LikeAnswered(204) =>
        \E r \in LiveTarget :
            /\ LikesOf(structures', r.id) = r.likes + Applied(resp'.count)
            /\ SentBy(users', resp'.steamid) =
                    SentBy(users, resp'.steamid) + Applied(resp'.count)
            /\ ReceivedBy(users', r.user_id) =
                    ReceivedBy(users, r.user_id) + Applied(resp'.count)]_vars

\* a like asking for 150 was applied, and the structure holds 100 likes
C3_Witness ==
    /\ resp.op = "like_structure" /\ resp.status = 204 /\ resp.count = Some(150)
    /\ LikesOf(structures, resp.id) = 100
    /\ SentBy(users, resp.steamid) = 100

\* C4: a like by the owner of the target structure is refused (400 once it
\* has passed the cooldown gate and the owner lookup) and leaves structures
\* and users as they were.
C4_SelfLikeRejected ==
    [][(resp'.op = "like_structure" /\ \E r \in LiveTarget : r.user_id = resp'.steamid) =>
        /\ resp'.status \in {400, 429, 500}
        /\ resp'.status = 500 => resp'.error \in {"tx_begin_failed", "select_owner_failed"}
        /\ UNCHANGED <<structures, users>>]_vars

\* the owner's like of its own structure was answered 400
C4_Witness ==
    /\ resp.op = "like_structure" /\ resp.status = 400
    /\ \E r \in structures : r.id = resp.id /\ r.user_id = resp.steamid /\ ~r.deleted

\* C5: a like of an id that is not stored, or is stored soft-deleted, is
\* answered 404 (once it has passed the cooldown gate and the owner lookup)
\* and leaves structures and users as they were: no account row is made.
C5_LikeMissingTarget ==
    [][(resp'.op = "like_structure" /\ LiveTarget = {}) =>
        /\ resp'.status \in {404, 429, 500}
        /\ resp'.status = 500 => resp'.error \in {"tx_begin_failed", "select_owner_failed"}
        /\ UNCHANGED <<structures, users>>]_vars

\* a like by an identity without account row, of a soft-deleted structure,
\* was answered 404
C5_Witness ==
    /\ resp.op = "like_structure" /\ resp.status = 404
    /\ \E r \in structures : r.id = resp.id /\ r.deleted
    /\ resp.steamid \notin DOMAIN users

\* C6: a like changes the store all at once or not at all: either it is
\* answered 204 and the target's likes, the liker's likes_send and the
\* owner's likes_received have all grown by the same positive count, both
\* account rows being there; or structures and users are as before.
C6_LikeAtomic ==
    [][resp'.op = "like_structure" =>
        \/ /\ resp'.status # 204
           /\ UNCHANGED <<structures, users>>
        \/ /\ resp'.status = 204
           /\ \E r \in LiveTarget : \E c \in 1..like_count_max :
                /\ structures' = (structures \ {r}) \cup {[r EXCEPT !.likes = @ + c]}
                /\ {resp'.steamid, r.user_id} \subseteq DOMAIN users'
                /\ \A u \in DOMAIN users' :
                    /\ users'[u].likes_send =
                            SentBy(users, u) + (IF u = resp'.steamid THEN c ELSE 0)
                    /\ users'[u].likes_received =
                            ReceivedBy(users, u) + (IF u = r.user_id THEN c ELSE 0)
                /\ DOMAIN users' = DOMAIN users \cup {resp'.steamid, r.user_id}]_vars

\* a like whose commit failed after every statement had run
C6_Witness ==
    /\ resp.op = "like_structure" /\ resp.status = 500
    /\ resp.error = "tx_commit_failed"
    /\ \E r \in structures : r.id = resp.id /\ ~r.deleted /\ r.user_id # resp.steamid

\* -- cooldowns
\* the request of this step arrives while the identity's last recorded action
\* in `limiter` is less than `cooldown` ticks old
InsideCooldown(limiter, cooldown) ==
    /\ resp'.steamid \in DOMAIN limiter
    /\ limiter[resp'.steamid] + resp'.dt < cooldown

\* C7: in each class (submit, sample, like) a request is answered 429 exactly
\* when the identity has a recorded action of that class less than the
\* class cooldown ago; with no recorded action, or one at least a cooldown
\* old, it passes the gate.
C7_CooldownGate ==
    [][/\ resp'.op = "post_structure" =>
            (resp'.status = 429 <=>
                InsideCooldown(post_structure_rate_limiter, post_structure_rate_limit))
       /\ resp'.op = "get_random" =>
            (resp'.status = 429 <=>
                InsideCooldown(get_structure_rate_limiter, get_structure_rate_limit))
       /\ resp'.op = "like_structure" =>
            (resp'.status = 429 <=>
                InsideCooldown(post_like_rate_limiter, post_like_rate_limit))]_vars

\* the second upload of an identity succeeded, a full cooldown after the
\* first one
C7_Witness ==
    /\ resp.op = "post_structure" /\ resp.status = 200
    /\ resp.rec.id = 2
    /\ resp.dt = post_structure_rate_limit

\* -- sampling
Sampled == resp.op = "get_random" /\ resp.status = 200
SampledNext == resp'.op = "get_random" /\ resp'.status = 200

\* the limit a sample request asks for, the configured default if omitted
AskedLimit(p) == IF p.limit = None THEN default_random_limit ELSE p.limit[1]

\* the prefab names between the commas of exclude_prefabs
Excluded(p) ==
    IF p.exclude_prefabs = None THEN {}
    ELSE {p.exclude_prefabs[1][i] : i \in 1..Len(p.exclude_prefabs[1])} \ {""}

\* every row a sample returns is of the scene asked for, of the map_id asked
\* for if one is, and of no excluded prefab
RowsMatch(p, rows) ==
    \A i \in 1..Len(rows) :
        /\ rows[i].scene = p.scene
        /\ (p.map_id # None => rows[i].map_id = p.map_id[1])
        /\ rows[i].prefab \notin Excluded(p)

MinOf(a, b) == IF a <= b THEN a ELSE b
MaxOf(a, b) == IF a >= b THEN a ELSE b

\* C8 as stated: a sample returns at most min(requested limit,
\* max_requested_structs) rows, all matching the scene, map_id and
\* exclude_prefabs filters.
C8_AtMostRequested ==
    Sampled =>
        /\ Len(resp.rows) <= MinOf(AskedLimit(resp.params[1]), max_requested_structs)
        /\ RowsMatch(resp.params[1], resp.rows)

\* C8 amended: a sample returns at most min(max(requested limit, 0),
\* max_requested_structs) rows, all matching the scene, map_id and
\* exclude_prefabs filters.
C8_SampleBoundAndFilters ==
    Sampled =>
        /\ Len(resp.rows) <=
                MinOf(MaxOf(AskedLimit(resp.params[1]), 0), max_requested_structs)
        /\ RowsMatch(resp.params[1], resp.rows)

\* a sample asking for 10 rows with map_id and exclude_prefabs given
\* returned rows, with more rows stored in the scene than returned
C8_Witness ==
    /\ Sampled
    /\ resp.params[1].limit = Some(10)
    /\ resp.params[1].map_id # None /\ resp.params[1].exclude_prefabs # None
    /\ Len(resp.rows) >= 2
    /\ Cardinality({r \in structures : r.scene = resp.scene /\ ~r.deleted}) > Len(resp.rows)

\* the stored rows that pass the filters of a sample request
Matching(p) ==
    {r \in structures :
        /\ r.scene = p.scene
        /\ ~r.deleted
        /\ (p.map_id # None => r.map_id = p.map_id[1])
        /\ r.prefab \notin Excluded(p)}

\* C9: whatever the limit (negative, zero, above the maximum, or omitted) a
\* sample is not refused for it, and returns exactly
\* min(clamp(limit, 0, max_requested_structs), number of matching rows) rows.
C9_SampleSize ==
    [][resp'.op = "get_random" =>
        /\ resp'.status \in {200, 400, 429, 500}
        /\ resp'.status = 400 => Len(resp'.scene) > max_scene_length
        /\ resp'.status = 500 => resp'.error = "query_failed"
        /\ resp'.status = 200 =>
            Len(resp'.rows) =
                MinOf(MinOf(MaxOf(AskedLimit(resp'.params[1]), 0), max_requested_structs),
                      Cardinality(Matching(resp'.params[1])))]_vars

\* a limit of 10 with five matching rows returned max_requested_structs rows
C9_Witness ==
    /\ Sampled
    /\ resp.params[1].limit = Some(10)
    /\ Cardinality(Matching(resp.params[1])) > max_requested_structs
    /\ Len(resp.rows) = max_requested_structs

\* the (owner, segment) partitions of a set of rows
Partitions(rows) == {<<r.user_id, r.segment>> : r \in rows}

\* C10: when the effective limit is at most the number of (owner, segment)
\* partitions among the matching rows, no two returned rows are of the same
\* partition.
C10_Diversity ==
    [][(/\ SampledNext
        /\ MinOf(MaxOf(AskedLimit(resp'.params[1]), 0), max_requested_structs)
                <= Cardinality(Partitions(Matching(resp'.params[1])))) =>
        \A i, j \in 1..Len(resp'.rows) :
            (/\ resp'.rows[i].user_id = resp'.rows[j].user_id
             /\ resp'.rows[i].segment = resp'.rows[j].segment) => i = j]_vars

\* four rows of four partitions were returned out of five matching rows
C10_Witness ==
    /\ Sampled
    /\ Len(resp.rows) = 4
    /\ Cardinality(Matching(resp.params[1])) = 5
    /\ Cardinality(Partitions(Matching(resp.params[1]))) = 4

\* -- submit failures
\* the error= labels post_structure logs for a failed storage step
SubmitStorageErrors ==
    {"like_tx_begin_failed", "ensure_user_failed", "insert_structure_failed",
     "count_structures_failed", "tx_commit_failed"}

\* C11: a submit that fails at a storage step (begin, account row, insert,
\* count, commit) is answered 500, and every submit answered 500 leaves
\* structures, users and the id sequence as they were and evicts nothing.
C11_SubmitFailureAtomic ==
    [][resp'.op = "post_structure" =>
        /\ resp'.status \in {200, 429, 500}
        /\ (resp'.error \in SubmitStorageErrors <=> resp'.status = 500)
        /\ resp'.status = 500 =>
            UNCHANGED <<structures, users, sqlite_sequence, evicted, evict_failures>>]_vars

\* the commit failed of a submit by an identity without account row
C11_Witness ==
    /\ resp.op = "post_structure" /\ resp.status = 500
    /\ resp.error = "tx_commit_failed"
    /\ resp.steamid \notin DOMAIN users

\* C12 as stated: a submit whose scene or prefab is longer than its bound is
\* answered 400 and stores nothing.
C12_SubmitValidation ==
    [][(/\ resp'.op = "post_structure"
        /\ resp'.status # 429
        /\ \/ Len(resp'.payload[1].scene) > max_scene_length
           \/ Len(resp'.payload[1].prefab) > max_prefab_length) =>
        /\ resp'.status = 400
        /\ UNCHANGED <<structures, users, sqlite_sequence>>]_vars

C14_DeletedInvisible ==
    [][/\ SampledNext =>
            \A i \in 1..Len(resp'.rows) :
                \E r \in structures : r.id = resp'.rows[i].id /\ ~r.deleted
       /\ (/\ resp'.op = "like_structure" /\ resp'.status # 429
           /\ \E r \in Target : r.deleted) =>
            /\ resp'.status = 404 /\ resp'.error = ""
            /\ UNCHANGED <<structures, users>>]_vars

\* a sample returned one of two stored structures of the scene, the other
\* one being soft-deleted
C14_Witness ==
    /\ Sampled
    /\ Len(resp.rows) = 1
    /\ resp.params[1].limit = None
    /\ \E r \in structures : r.scene = resp.scene /\ r.deleted

\* -- rate-limited requests
\* C15: a request answered 429 is answered in the step it arrives in, leaves
\* none waiting, and leaves structures, users and the id sequence as they
\* were; nothing is evicted.
C15_RateLimitedNoWork ==
    [][resp'.status = 429 =>
        /\ resp'.op \in {"post_structure", "get_random", "like_structure"}
        /\ UNCHANGED <<structures, users, sqlite_sequence, evicted, in_flight>>]_vars

\* an upload was refused while the identity's first upload is the only row
\* and id handed out
C15_Witness ==
    /\ resp.op = "post_structure" /\ resp.status = 429
    /\ sqlite_sequence = 1
    /\ Cardinality(structures) = 1

\* -- identity
\* the extractor is given a request in this step (an answer of Steam to an
\* earlier request is not such a step)
ResolveStarts == auth'.via \in {"header", "cache", "bypass", "call"}
\* the extractor ends a request with a failure in this step
ResolveFails == auth'.via \in {"header", "bypass", "steam"} /\ ~auth'.ok
GivenTicket == auth'.header[1]

\* C16: a resolve of a ticket that is in the cache returns the cached
\* identity and makes no call to Steam, whatever Steam would answer; and no
\* step removes or changes a cache entry.
C16_CacheHit ==
    [][/\ (ResolveStarts /\ auth'.header # None /\ GivenTicket \in DOMAIN cache) =>
            /\ auth'.via = "cache" /\ auth'.ok
            /\ auth'.id = cache[GivenTicket]
            /\ in_flight' = in_flight
       /\ \A tk \in DOMAIN cache : tk \in DOMAIN cache' /\ cache'[tk] = cache[tk]]_vars

\* with the bypass off, a ticket Steam has verified is resolved from the cache
C16_Witness ==
    /\ ~skip_steam_ticket_validation
    /\ auth.via = "cache" /\ auth.ok
    /\ auth.header = Some(SignedTicket)
    /\ auth.id = 222

\* C17: a resolve that fails, for whatever reason, leaves the cache as it
\* was; the cache changes only by a successful resolve, which adds the given
\* ticket with the identity resolved; and with the bypass off a ticket that
\* is not in the cache is sent to Steam.
C17_FailuresNotCached ==
    [][/\ ResolveFails => cache' = cache
       /\ cache' # cache =>
            /\ auth'.ok
            /\ cache' = CacheInsert(cache, GivenTicket, auth'.id)
       /\ (/\ ResolveStarts /\ auth'.header # None /\ ToStrOk(GivenTicket)
           /\ GivenTicket \notin DOMAIN cache /\ ~skip_steam_ticket_validation
           /\ Cardinality(in_flight) < MaxInFlight) =>
            auth'.via = "call"]_vars

\* Steam refused a ticket, naming a steamid, and the ticket is not cached
C17_Witness ==
    /\ auth.via = "steam" /\ ~auth.ok
    /\ auth.reply.result = "Invalid ticket" /\ auth.reply.steamid # ""
    /\ auth.header[1] \notin DOMAIN cache

\* the answers of the three kinds of failure
UnauthenticatedAnswers == {<<401, "X-Steam-Auth missing">>, <<400, "bad header">>}
RejectedAnswers == {<<401, "ticket rejected">>}
UpstreamAnswers == {<<502, "transport_error">>, <<502, "bad_json">>, <<502, "bad steamid">>}
Answer == <<resp'.status, resp'.error>>

\* C18: with the bypass off, a request without header or with a header that
\* is not visible ASCII gets an Unauthenticated answer; one whose ticket
\* Steam answers with a result other than "OK" gets the Rejected answer;
\* one whose call fails in transport, or is answered with something that is
\* not the expected JSON or with a steamid that is no number, gets an
\* UpstreamUnavailable answer (502).  No answer belongs to two kinds, and
\* none of these requests changes the limiters or the store.
C18_FailureClasses ==
    [][(ResolveFails /\ ~skip_steam_ticket_validation) =>
        /\ (auth'.header = None \/ ~ToStrOk(GivenTicket)) <=>
                Answer \in UnauthenticatedAnswers
        /\ (auth'.reply.kind = "json" /\ auth'.reply.result # "OK") <=>
                Answer \in RejectedAnswers
        /\ (\/ auth'.reply.kind \in {"transport_error", "bad_json"}
            \/ auth'.reply.kind = "json" /\ auth'.reply.result = "OK") <=>
                Answer \in UpstreamAnswers
        /\ Answer \in UnauthenticatedAnswers \cup RejectedAnswers \cup UpstreamAnswers
        /\ UNCHANGED <<db_vars, limiter_vars, evicted>>]_vars

\* an upload whose ticket Steam answered with an unreadable body was
\* answered 502
C18_Witness ==
    /\ resp.op = "post_structure" /\ resp.status = 502
    /\ auth.reply.kind = "bad_json"
    /\ in_flight # {}

\* the unsigned integers the tickets of the model spell
TicketNumber == (SignedTicket :> 111)

\* C19: with the bypass on, no request is sent to Steam; a ticket that is not
\* in the cache resolves to the unsigned integer it spells and is cached,
\* or fails with 400 and is not cached when it spells none; a ticket that is
\* in the cache resolves to its cached identity, numeric or not.
C19_BypassMode ==
    [][(skip_steam_ticket_validation /\ auth'.via # "none") =>
        /\ auth'.via \in {"header", "cache", "bypass"}
        /\ in_flight' = {}
        /\ (auth'.header # None /\ ToStrOk(GivenTicket)) =>
            IF GivenTicket \in DOMAIN cache
            THEN auth'.ok /\ auth'.id = cache[GivenTicket] /\ cache' = cache
            ELSE IF GivenTicket \in DOMAIN TicketNumber
                 THEN /\ auth'.ok /\ auth'.id = TicketNumber[GivenTicket]
                      /\ cache' = cache @@ (GivenTicket :> TicketNumber[GivenTicket])
                 ELSE /\ ~auth'.ok
                      /\ Answer = <<400, "invalid steam ticket override">>
                      /\ cache' = cache]_vars

\* with the bypass on, the ticket "+0111" was resolved to 111 and cached
C19_Witness ==
    /\ skip_steam_ticket_validation
    /\ auth.via = "bypass" /\ auth.ok /\ auth.id = 111
    /\ auth.header = Some(SignedTicket)
    /\ SignedTicket \in DOMAIN cache /\ cache[SignedTicket] = 111

\* -- accounts
\* C20: a successful submit leaves an account row for the submitter, a
\* successful like leaves one for the liker and one for the owner of the
\* liked structure, and no step removes an account row.
C20_AccountsExist ==
    [][/\ (resp'.op = "post_structure" /\ resp'.status = 200) =>
            resp'.steamid \in DOMAIN users'
       /\ LikeAnswered(204) =>
            /\ resp'.steamid \in DOMAIN users'
            /\ \A r \in Target : r.user_id \in DOMAIN users'
       /\ DOMAIN users \subseteq DOMAIN users'
       /\ \A r \in structures' : r.user_id \in DOMAIN users']_vars

\* a like was applied for an identity that has uploaded nothing
C20_Witness ==
    /\ resp.op = "like_structure" /\ resp.status = 204
    /\ resp.steamid \in DOMAIN users
    /\ \A r \in structures \cup evicted : r.user_id # resp.steamid

\* -- counters
\* C21: a structure's likes and an account's likes_send and likes_received
\* are never negative, and no submit, sample or like lowers the likes of a
\* structure that stays stored or a counter of an account, or removes an
\* account; the account upsert of submit and like leaves the counters of an
\* account that exists as they are.
C21_CountersMonotone ==
    [][/\ \A r \in structures \cup structures' : r.likes >= 0
       /\ \A r \in structures : \A q \in structures' : q.id = r.id => q.likes >= r.likes
       /\ \A u \in DOMAIN users \cup DOMAIN users' :
            /\ SentBy(users, u) >= 0 /\ ReceivedBy(users, u) >= 0
            /\ SentBy(users', u) >= SentBy(users, u)
            /\ ReceivedBy(users', u) >= ReceivedBy(users, u)
       /\ DOMAIN users \subseteq DOMAIN users'
       /\ (resp'.op = "post_structure" /\ resp'.steamid \in DOMAIN users) =>
            users'[resp'.steamid] = users[resp'.steamid]]_vars

\* an identity whose structure has been liked uploaded once more
C21_Witness ==
    /\ resp.op = "post_structure" /\ resp.status = 200
    /\ resp.rec.id >= 2
    /\ ReceivedBy(users, resp.steamid) > 0

\* -- eviction
SubmitAnswered(status) == resp'.op = "post_structure" /\ resp'.status = status
\* the rows of the submitter in the submitted scene, deleted or not
PairRows(rows) == {r \in rows : r.user_id = resp'.steamid /\ r.scene = resp'.scene}

\* C25: a successful submit removes at most one of the rows stored before
\* it, and only a row of the submitter in the submitted scene; every other
\* row stays stored as it was, and no row is added but the new structure.
\* The submitter's rows in the scene do not become fewer: a pair that was
\* above the cap before the submit is above the cap after it.
C25_EvictionFrame ==
    [][SubmitAnswered(200) =>
        /\ Cardinality(structures \ structures') <= 1
        /\ structures \ structures' \subseteq PairRows(structures)
        /\ \A r \in structures' \ structures :
                r.id = resp'.rec.id /\ r.id = sqlite_sequence + 1
        /\ Cardinality(structures' \ structures) <= 1
        /\ Cardinality(PairRows(structures')) >= Cardinality(PairRows(structures))
        /\ Cardinality(PairRows(structures)) > max_user_structs_saved_per_scene =>
                Cardinality(PairRows(structures')) > max_user_structs_saved_per_scene]_vars

\* an upload of OWNER_ID to SceneA evicted id 1 and left the pair above the
\* cap, the liked structure of LIKER_ID being stored as before
C25_Witness ==
    /\ resp.op = "post_structure" /\ resp.status = 200
    /\ resp.steamid = OWNER_ID /\ resp.scene = "SceneA"
    /\ \E e \in evicted : e.id = 1
    /\ Cardinality(UserSceneRows(structures, OWNER_ID, "SceneA")) >
            max_user_structs_saved_per_scene
    /\ [Uploaded(5, LIKER_ID) EXCEPT !.likes = 5] \in structures

\* C26: a submit whose eviction delete fails while its other steps succeed
\* is answered 200 with the new structure: the new row and the account row
\* are committed, nothing is removed, and the pair holds more rows than the
\* cap.  No submit is answered 500 for its eviction delete.
C26_EvictionFailureNonFatal ==
    [][/\ (resp'.op = "post_structure" /\ evict_failures' # evict_failures) =>
            /\ resp'.status = 200
            /\ \E new \in structures' :
                /\ AsStructure(new) = resp'.rec
                /\ new.id = sqlite_sequence + 1
                /\ structures' = structures \cup {new}
            /\ sqlite_sequence' = sqlite_sequence + 1
            /\ resp'.steamid \in DOMAIN users'
            /\ Cardinality(PairRows(structures')) > max_user_structs_saved_per_scene
            /\ evicted' = evicted
       /\ SubmitAnswered(500) => resp'.error \in SubmitStorageErrors]_vars

\* the eviction delete failed of the third upload of an identity to a scene:
\* the three rows are stored
C26_Witness ==
    /\ resp.op = "post_structure" /\ resp.status = 200
    /\ resp.steamid = OTHER_ID
    /\ evict_failures[<<OTHER_ID, "SceneA">>] = 1
    /\ Cardinality(UserSceneRows(structures, OTHER_ID, "SceneA")) =
            max_user_structs_saved_per_scene + 1

\* C27 as stated: a submit whose rows in the scene that are not soft-deleted
\* number at most the cap, the new row counted, removes no row.
C27_CountsLiveRows ==
    [][(/\ SubmitAnswered(200)
        /\ Cardinality({r \in PairRows(structures) : ~r.deleted}) + 1
                <= max_user_structs_saved_per_scene) =>
        /\ structures \subseteq structures'
        /\ evicted' = evicted]_vars

\* -- rank order of a sample
\* how many of the first i rows of a sample are of the partition of row i:
\* the rank the i-th row had, the sample being ordered by rank
RankAt(rows, i) ==
    Cardinality({j \in 1..i : /\ rows[j].user_id = rows[i].user_id
                              /\ rows[j].segment = rows[i].segment})
\* the rows of `part` among a set or a sequence of rows
InPartition(rows, part) == {r \in rows : <<r.user_id, r.segment>> = part}
Returned(rows) == {rows[i] : i \in 1..Len(rows)}

\* C28: the rows of a sample are matching rows, each once, in an order in
\* which the rank within the (owner, segment) partition never goes down;
\* when a row of rank k + 1 is returned, min(k, n) rows are returned of every
\* partition of the matching rows, n the number of matching rows of that
\* partition: rows that do not pass the filters count for nothing.
C28_RankOrdered ==
    [][SampledNext =>
        LET rows == resp'.rows
            matching == {AsStructure(r) : r \in Matching(resp'.params[1])}
        IN  /\ Returned(rows) \subseteq matching
            /\ Cardinality(Returned(rows)) = Len(rows)
            /\ \A i, j \in 1..Len(rows) : i <= j => RankAt(rows, i) <= RankAt(rows, j)
            /\ \A i \in 1..Len(rows) : \A part \in Partitions(matching) :
                Cardinality(InPartition(Returned(rows), part)) >=
                    MinOf(RankAt(rows, i) - 1, Cardinality(InPartition(matching, part)))]_vars

\* three rows were returned, the last one the second of its partition, two
\* rows of the scene, of other partitions, being soft-deleted
C28_Witness ==
    /\ Sampled
    /\ Len(resp.rows) = 3
    /\ RankAt(resp.rows, 3) = 2
    /\ Cardinality({r \in structures : r.scene = resp.scene /\ r.deleted}) = 2

\* -- the cooldown of a failed request
\* the request before this one was of the same identity and class, was not
\* refused by the cooldown gate, and failed with one of `failures`
RetryOf(op, failures) ==
    /\ resp.op = op /\ resp'.op = op
    /\ resp.steamid = resp'.steamid
    /\ resp.status \in failures

\* C30: a like answered 404, 400 or 500, and a submit answered 500, has
\* recorded the identity's cooldown at the time of the request, and a
\* request of the same identity and class that follows it in less than the
\* cooldown is answered 429.
C30_RecordOnFailure ==
    [][/\ (resp'.op = "like_structure" /\ resp'.status \in {400, 404, 500}) =>
            /\ resp'.steamid \in DOMAIN post_like_rate_limiter'
            /\ post_like_rate_limiter'[resp'.steamid] = 0
       /\ SubmitAnswered(500) =>
            /\ resp'.steamid \in DOMAIN post_structure_rate_limiter'
            /\ post_structure_rate_limiter'[resp'.steamid] = 0
       /\ (RetryOf("like_structure", {400, 404, 500}) /\ resp'.dt < post_like_rate_limit) =>
            resp'.status = 429
       /\ (RetryOf("post_structure", {500}) /\ resp'.dt < post_structure_rate_limit) =>
            resp'.status = 429]_vars

\* a like at once was answered 429 for an identity none of whose likes has
\* been applied
C30_Witness ==
    /\ resp.op = "like_structure" /\ resp.status = 429 /\ resp.dt = 0
    /\ resp.steamid \notin DOMAIN users
    /\ post_like_rate_limiter[resp.steamid] = 0

\* the rows of OWNER_ID in SceneA, deleted or not
OwnerRows(rows) == {r \in rows : r.user_id = OWNER_ID /\ r.scene = "SceneA"}

\* the tasks that were answered with this status
Done(status) == {t \in DOMAIN tasks : tasks[t].pc = "done" /\ tasks[t].status = status}

\* C22: under every interleaving of concurrent uploads of one identity to
\* one scene that starts within the cap, the committed rows of the pair are
\* never more than the cap plus one, and no upload acts on a stale count:
\* each successful upload was computed on the database as committed just
\* before its own commit (its id is the next id), evicts when the pair is at
\* the cap, and leaves the pair within the cap.
C22_ConcurrentCap ==
    /\ [](Cardinality(OwnerRows(structures)) <= max_user_structs_saved_per_scene + 1)
    /\ [][SubmitAnswered(200) =>
            /\ resp'.rec.id = sqlite_sequence + 1
            /\ sqlite_sequence' = sqlite_sequence + 1
            /\ Cardinality(PairRows(structures)) >= max_user_structs_saved_per_scene =>
                    structures \ structures' # {}
            /\ Cardinality(PairRows(structures)) <= max_user_structs_saved_per_scene =>
                    Cardinality(PairRows(structures')) <= max_user_structs_saved_per_scene]_vars

\* two concurrent uploads of OWNER_ID to SceneA both succeeded, each evicted
\* one structure, a third waits with its transaction written, and the pair
\* is at the cap
C22_Witness ==
    /\ Cardinality(Done(200)) = 2
    /\ \A t \in Done(200) : tasks[t].rq.op = "post_structure"
    /\ \E t \in DOMAIN tasks : tasks[t].pc = "written"
    /\ {r.id : r \in evicted} = {1, 2}
    /\ Cardinality(OwnerRows(structures)) = max_user_structs_saved_per_scene

\* the sum of the clamped counts of the first n tasks that are likes of
\* these likers answered with success
RECURSIVE LikeSum(_, _)
LikeSum(n, likers) ==
    IF n = 0 THEN 0
    ELSE LikeSum(n - 1, likers) +
         (IF /\ n \in Done(204)
             /\ tasks[n].rq.op = "like_structure"
             /\ tasks[n].rq.steamid \in likers
          THEN Applied(tasks[n].rq.count) ELSE 0)

\* C23: under every interleaving of concurrent likes of one structure, by
\* different likers or by racing requests of one liker, the likes of the
\* structure (while it is stored) and the likes_received of its owner are
\* the sum of the clamped counts of the likes answered with success, and the
\* likes_send of each liker is the sum of its own.
C23_NoLostLike ==
    /\ \A r \in structures : r.id = 1 => r.likes = LikeSum(Len(tasks), UserIds)
    /\ users[OWNER_ID].likes_received = LikeSum(Len(tasks), UserIds)
    /\ \A u \in UserIds : LikesSent(u) = LikeSum(Len(tasks), {u})

\* three concurrent likes of structure 1 succeeded, two of them by LIKER_ID
\* and one of OTHER_ID with a count above the maximum
C23_Witness ==
    /\ Cardinality(Done(204)) = 3
    /\ LikesOf(structures, 1) = 102
    /\ LikesSent(LIKER_ID) = 2
    /\ LikesSent(OTHER_ID) = 100
    /\ users[OWNER_ID].likes_received = 102

\* task u recorded its action: it passed the check and inserted its instant
HasRecorded(u) ==
    \/ tasks[u].pc \in {"recorded", "selected", "written"}
    \/ tasks[u].pc = "done" /\ tasks[u].status # 429

\* the tasks of the identity and operation class of task t
Rivals(t) ==
    {u \in DOMAIN tasks : /\ tasks[u].rq.steamid = tasks[t].rq.steamid
                          /\ tasks[u].rq.op = tasks[t].rq.op}

\* C24 as stated: of the concurrent requests of one identity and operation
\* class, at most one beyond the first is allowed within a cooldown window.
C24_OneExtra ==
    \A t \in DOMAIN tasks : Cardinality({u \in Rivals(t) : HasRecorded(u)}) <= 2

\* C24: a request that checks after a request of the same identity and
\* operation class has recorded, within the cooldown window, is refused with
\* 429; only requests that check before the first record are allowed.
C24_RefusedAfterRecord ==
    [][\A t \in DOMAIN tasks :
        (/\ tasks[t].pc = "new"
         /\ tasks'[t].pc # "new"
         /\ \E u \in Rivals(t) \ {t} : HasRecorded(u))
        => /\ tasks'[t].pc = "done"
           /\ tasks'[t].status = 429
           /\ resp'.status = 429]_vars

\* of three concurrent uploads of OWNER_ID two passed the check before
\* either recorded, and the third checked after a record and was refused
C24_Witness ==
    \E t \in Done(429) :
        /\ tasks[t].rq.op = "post_structure"
        /\ Cardinality({u \in Rivals(t) : HasRecorded(u)}) = 2

\* the target of the like of task t is stored and not deleted
TargetLive(rows, t) == SelectOwner(rows, tasks[t].rq.id) # {}

\* C29: a like whose target was deleted or evicted after its owner lookup
\* and before its increment is answered 404 and leaves the accounts and the
\* structures as they were; and the counters of an account grow only in a
\* commit that adds the same count to a stored, non-deleted structure.
C29_LikeRacingDelete ==
    [][/\ \A t \in DOMAIN tasks :
            (/\ tasks[t].pc \in {"selected", "written"}
             /\ tasks[t].rq.op = "like_structure"
             /\ ~TargetLive(structures, t)
             /\ tasks'[t].pc = "done")
            => /\ tasks'[t].status = 404
               /\ resp'.status = 404
               /\ UNCHANGED db_vars
       /\ (\E u \in DOMAIN users' : LikesSent(u)' > LikesSent(u))
            => \E r \in structures :
                /\ ~r.deleted
                /\ r.id = resp'.id
                /\ resp'.status = 204
                /\ LikesOf(structures', r.id) = r.likes + Applied(resp'.count)
                /\ \E q \in structures' : q.id = r.id /\ ~q.deleted]_vars

\* the three request handlers
Classes == {"post_structure", "get_random", "like_structure"}

\* the last-action map of an operation class
LastAction(op) ==
    IF op = "post_structure" THEN post_structure_rate_limiter
    ELSE IF op = "get_random" THEN get_structure_rate_limiter
    ELSE post_like_rate_limiter

\* the cooldown of an operation class
Cooldown(op) ==
    IF op = "post_structure" THEN post_structure_rate_limit
    ELSE IF op = "get_random" THEN get_structure_rate_limit
    ELSE post_like_rate_limit

\* C31: a request of one identity and class leaves the last-action entry of
\* every other identity, and of the same identity in the other two classes,
\* as it was (older by the time that passed and nothing else, no entry
\* added or removed); and a request is refused with 429 only when its own
\* identity has an entry in its own class that is younger than the cooldown
\* of that class.
C31_RateLimitIsolation ==
    [][resp'.op \in Classes =>
        /\ \A op \in Classes, u \in UserIds :
                (op # resp'.op \/ u # resp'.steamid) =>
                    /\ (u \in DOMAIN LastAction(op)') <=> (u \in DOMAIN LastAction(op))
                    /\ u \in DOMAIN LastAction(op) =>
                            LastAction(op)'[u] = Elapse(LastAction(op), resp'.dt)[u]
        /\ resp'.status = 429 =>
                RateLimited(Elapse(LastAction(resp'.op), resp'.dt), resp'.steamid,
                            Cooldown(resp'.op))]_vars

\* OWNER_ID uploaded, LIKER_ID sampled, and at once after them a like by
\* OWNER_ID passed the cooldown gate and was counted
C31_Witness ==
    /\ resp.op = "like_structure" /\ resp.steamid = OWNER_ID
    /\ resp.status = 204 /\ resp.dt = 0
    /\ post_structure_rate_limiter[OWNER_ID] = 0
    /\ LIKER_ID \in DOMAIN get_structure_rate_limiter
    /\ get_structure_rate_limiter[LIKER_ID] = 0
    /\ OWNER_ID \notin DOMAIN get_structure_rate_limiter

\* C35: a request answered 429 leaves the last-action entry of its identity
\* and class as it was, older by the time that passed and not reset; and a
\* request that arrives when the entry of its identity and class has reached
\* the cooldown is not answered 429.  The entry being written by allowed
\* requests only, the window is measured from the last allowed request.
C35_RefusalKeepsWindow ==
    [][\A op \in Classes : resp'.op = op =>
        /\ resp'.status = 429 =>
                /\ resp'.steamid \in DOMAIN LastAction(op)
                /\ LastAction(op)'[resp'.steamid] =
                        Elapse(LastAction(op), resp'.dt)[resp'.steamid]
        /\ (/\ resp'.steamid \in DOMAIN LastAction(op)
            /\ LastAction(op)[resp'.steamid] + resp'.dt >= Cooldown(op))
            => resp'.status # 429
        /\ resp'.status # 429 => LastAction(op)'[resp'.steamid] = 0]_vars

\* a sample of LIKER_ID one tick after its allowed sample was refused, and
\* its entry is one tick old: the next retry, one tick later, is allowed
C35_Witness ==
    /\ resp.op = "get_random" /\ resp.steamid = LIKER_ID
    /\ resp.status = 429 /\ resp.dt = 1
    /\ get_structure_rate_limiter[LIKER_ID] = 1
    /\ get_structure_rate_limiter[LIKER_ID] + 1 >= get_structure_rate_limit

\* every request has been answered
AllDone == \A t \in DOMAIN tasks : tasks[t].pc = "done"

\* C32: no answered submit or like holds the write lock of a transaction,
\* whatever its exit path (success, 404, self-like, no row updated, a storage
\* error at any statement); when every request is answered no transaction is
\* open; a request is answered once, its answer never changing afterwards;
\* and every request is answered eventually.
C32_TransactionRelease ==
    /\ [](\A t \in DOMAIN tasks : tasks[t].pc = "done" => writer # t)
    /\ [](AllDone => writer = 0)
    /\ [][\A t \in DOMAIN tasks :
            /\ tasks[t].pc = "done" => tasks'[t] = tasks[t]
            /\ (tasks[t].pc # "done" /\ tasks'[t].pc = "done") =>
                    /\ resp'.status = tasks'[t].status
                    /\ resp'.status # 0
                    /\ resp'.steamid = tasks[t].rq.steamid]_vars
    /\ <>AllDone

\* every request is answered, each with a storage error after its
\* transaction had taken the write lock, and no write lock is held
C32_Witness ==
    /\ AllDone
    /\ \A t \in DOMAIN tasks : tasks[t].status = 500 /\ tasks[t].out # None
    /\ writer = 0
    /\ \E t \in DOMAIN tasks : tasks[t].rq.op = "like_structure"
    /\ \E t \in DOMAIN tasks : tasks[t].rq.op = "post_structure"

\* C33: the structure returned in a 200 answer to a submit is stored when
\* the submit has committed: a submit does not evict the row it inserted.
C33_NewRowStored ==
    [][SubmitAnswered(200) =>
        \E r \in structures' : r.id = resp'.rec.id /\ AsStructure(r) = resp'.rec]_vars

\* the sum of the likes of a set of rows
RECURSIVE RowLikes(_)
RowLikes(rows) ==
    IF rows = {} THEN 0
    ELSE LET r == CHOOSE q \in rows : TRUE IN r.likes + RowLikes(rows \ {r})

\* the sums of likes_send and of likes_received over the accounts ids
RECURSIVE TotalSent(_)
TotalSent(ids) ==
    IF ids = {} THEN 0
    ELSE LET u == CHOOSE v \in ids : TRUE IN users[u].likes_send + TotalSent(ids \ {u})

RECURSIVE TotalReceived(_)
TotalReceived(ids) ==
    IF ids = {} THEN 0
    ELSE LET u == CHOOSE v \in ids : TRUE IN users[u].likes_received + TotalReceived(ids \ {u})

\* the stored rows of an owner, deleted or not
OwnedBy(rows, u) == {r \in rows : r.user_id = u}

\* C34: starting from an empty store, in every committed state the sum of
\* likes_send over the accounts is the sum of likes_received over the
\* accounts; every owner of a stored structure has an account, and the
\* likes_received of an account are at least the sum of the likes of its
\* stored structures, and equal to it when no liked structure of the owner
\* has been evicted.
C34_LikeConservation ==
    /\ TotalSent(DOMAIN users) = TotalReceived(DOMAIN users)
    /\ \A r \in structures : r.user_id \in DOMAIN users
    /\ \A u \in DOMAIN users :
        /\ users[u].likes_received >= RowLikes(OwnedBy(structures, u))
        /\ (\A e \in OwnedBy(evicted, u) : e.likes = 0) =>
                users[u].likes_received = RowLikes(OwnedBy(structures, u))

\* LIKER_ID liked structure 1 of OWNER_ID, whose later upload evicted it: the
\* like stays counted on both accounts and on no stored structure
C34_Witness ==
    /\ LikesSent(LIKER_ID) = 1
    /\ users[OWNER_ID].likes_received = 1
    /\ \E e \in evicted : e.id = 1 /\ e.likes = 1
    /\ RowLikes(OwnedBy(structures, OWNER_ID)) = 0
    /\ OwnedBy(structures, OWNER_ID) # {}

====
